---------------------------- MODULE Spec2Model ----------------------------
(***************************************************************************)
(* A model of go-patchutils: the patch applier, the hunk inverter, the     *)
(* inter-file-diff driver with its overlap detector and hunk merger, and   *)
(* the chunks-to-FileDiff assembler of mixed mode.                         *)
(*                                                                         *)
(* Text representation.  A Go string is modelled by the list of lines that *)
(* strings.Split(s, "\n") returns for it, so the empty string is the list  *)
(* holding one empty line.  A line is a sequence of tokens: a hunk body    *)
(* line is <<prefix, content>>, a source line is <<content>>, the empty    *)
(* line is << >>.  A hunk Body (bytes ending in "\n") is the sequence of   *)
(* its "\n"-terminated lines.                                              *)
(***************************************************************************)
EXTENDS Integers, Sequences, FiniteSets, TLC

VARIABLES
    pc,         \* position of the caller: which operations have run
    source,     \* the base text S (oldSource in mixed mode)
    newSource,  \* newSource of mixed mode
    oldDiff,    \* FileDiff oldDiff
    newDiff,    \* FileDiff newDiff
    patched,    \* results of the applyDiff calls made so far
    fileDiff,   \* the FileDiff returned by interFileDiff, revertHunks or mixedMode
    oldFileDiffs,  \* InterDiff: the FileDiffs parsed from oldDiff
    newFileDiffs,  \* InterDiff: the FileDiffs parsed from newDiff
    oldI,          \* InterDiff: index i into oldFileDiffs
    newJ,          \* InterDiff: index j into newFileDiffs
    resultFiles,   \* InterDiff: the map from file name to printed diff
    workers,       \* InterDiff: the goroutines started with eg.Go
    pending,       \* InterDiff: the map insertion the driver is performing
    result,        \* InterDiff, MixedModePath: the returned string and error
    fileSystem,      \* MixedModePath: what is found at oldSourcePath and newSourcePath
    oldFileNames,    \* mixedModeDirPath: the files under oldSourcePath
    newFileNames,    \* mixedModeDirPath: the files under newSourcePath
    currentOldDiff,  \* mixedModeDirPath: the FileDiff of the current old file
    currentNewDiff,  \* mixedModeDirPath: the FileDiff of the current new file
    openFiles        \* the files opened with os.Open and not closed

\* the variables of the single-file operations
fileVars == <<source, newSource, oldDiff, newDiff, patched, fileDiff>>

\* the variables of InterDiff
interDiffVars ==
    <<oldFileDiffs, newFileDiffs, oldI, newJ, resultFiles, workers, pending, result>>

\* the variables of MixedModePath and of the mixed command
pathVars ==
    <<fileSystem, oldFileNames, newFileNames, currentOldDiff, currentNewDiff, openFiles>>

vars == <<pc, fileVars, interDiffVars, pathVars>>

\* the empty string
EmptyString == << << >> >>

\* a value not yet computed
None == [none |-> TRUE]

\* InterDiff is not running
IdleInterDiff ==
    /\ oldFileDiffs = << >> /\ newFileDiffs = << >>
    /\ oldI = 0 /\ newJ = 0
    /\ resultFiles = << >> /\ workers = << >>
    /\ pending = None /\ result = None

\* MixedModePath is not running
IdlePath ==
    /\ fileSystem = None
    /\ oldFileNames = << >> /\ newFileNames = << >>
    /\ currentOldDiff = None /\ currentNewDiff = None
    /\ openFiles = {}

\* the single-file operations are not running
IdleFile ==
    /\ source = EmptyString /\ newSource = EmptyString
    /\ oldDiff = None /\ newDiff = None
    /\ patched = None /\ fileDiff = None

-----------------------------------------------------------------------------
(* strings and slices *)

\* strings.HasPrefix(line, p) for a one-byte prefix p
HasPrefix(line, p) == Len(line) > 0 /\ line[1] = p

\* s[lo:hi] on a Go slice with 0-based bounds (the caller checks the bounds)
Slice(s, lo, hi) == SubSeq(s, lo + 1, hi)

\* strings.Split(strings.TrimSuffix(string(body), "\n"), "\n")
SplitTrimmed(body) == IF body = << >> THEN EmptyString ELSE body

\* strings.Split(string(body), "\n"): the text after the last "\n" is one more,
\* empty, element
SplitRaw(body) == body \o << << >> >>

\* []byte(strings.Join(lines, "\n") + "\n")
JoinBody(lines) == IF lines = << >> THEN << << >> >> ELSE lines

\* strings.Join(lines, "\n"), as the Split image of the resulting string
JoinText(lines) == IF lines = << >> THEN EmptyString ELSE lines

\* strings.TrimSuffix(text, "\n") on a Split image
TrimSuffixNL(text) ==
    IF Len(text) >= 2 /\ text[Len(text)] = << >>
    THEN SubSeq(text, 1, Len(text) - 1)
    ELSE text

-----------------------------------------------------------------------------
(* Hunk inverter *)

revertedLine(line) ==
    CASE HasPrefix(line, "+") -> <<"-">> \o Tail(line)
      [] HasPrefix(line, "-") -> <<"+">> \o Tail(line)
      [] OTHER -> line

revertedHunk(hunk) ==
    LET lines == SplitRaw(hunk.Body)
        newBody == [k \in 1..Len(lines) |-> revertedLine(lines[k])]
    IN  [OrigStartLine |-> hunk.NewStartLine,
         OrigLines     |-> hunk.NewLines,
         NewStartLine  |-> hunk.OrigStartLine,
         NewLines      |-> hunk.OrigLines,
         Body          |-> JoinBody(newBody)]

revertHunks(diffFile) ==
    [diffFile EXCEPT !.Hunks = [k \in 1..Len(diffFile.Hunks) |->
                                   revertedHunk(diffFile.Hunks[k])]]

-----------------------------------------------------------------------------
(* Patch applier *)

\* The results of applyDiff: the returned string and error.  A run-time panic
\* (index or slice bounds out of range) returns nothing.
ApplyOk(text)  == [out |-> text, err |-> "nil"]
ApplyMismatch  == [out |-> EmptyString, err |-> "ErrContentMismatch"]
ApplyPanic     == [out |-> EmptyString, err |-> "panic"]

\* applyHunkLines without the comparison of the line with the source
RECURSIVE applyHunkLines_NoCheck(_, _, _, _, _)
applyHunkLines_NoCheck(sourceBody, hunkBody, k, currentOrgSourceI, newBody) ==
    IF k > Len(hunkBody)
    THEN [err |-> "nil", i |-> currentOrgSourceI, body |-> newBody]
    ELSE LET line == hunkBody[k] IN
         IF HasPrefix(line, "+")
         THEN applyHunkLines_NoCheck(sourceBody, hunkBody, k + 1, currentOrgSourceI,
                                     Append(newBody, Tail(line)))
         ELSE IF Len(line) = 0 \/ currentOrgSourceI - 1 >= Len(sourceBody)
                 \/ currentOrgSourceI - 1 < 0
              THEN [err |-> "panic", i |-> currentOrgSourceI, body |-> newBody]
              ELSE applyHunkLines_NoCheck(sourceBody, hunkBody, k + 1,
                       currentOrgSourceI + 1,
                       IF HasPrefix(line, " ")
                       THEN Append(newBody, sourceBody[currentOrgSourceI])
                       ELSE newBody)

\* the loop over the lines of one hunk body, from line k
RECURSIVE applyHunkLines(_, _, _, _, _)
applyHunkLines(sourceBody, hunkBody, k, currentOrgSourceI, newBody) ==
    IF k > Len(hunkBody)
    THEN [err |-> "nil", i |-> currentOrgSourceI, body |-> newBody]
    ELSE LET line == hunkBody[k] IN
         IF HasPrefix(line, "+")
         THEN applyHunkLines(sourceBody, hunkBody, k + 1, currentOrgSourceI,
                             Append(newBody, Tail(line)))
         ELSE IF Len(line) = 0 \/ currentOrgSourceI - 1 >= Len(sourceBody)
                 \/ currentOrgSourceI - 1 < 0
              THEN [err |-> "panic", i |-> currentOrgSourceI, body |-> newBody]
              ELSE IF Tail(line) # sourceBody[currentOrgSourceI]
                   THEN [err |-> "ErrContentMismatch", i |-> currentOrgSourceI,
                         body |-> newBody]
                   ELSE applyHunkLines(sourceBody, hunkBody, k + 1,
                            currentOrgSourceI + 1,
                            IF HasPrefix(line, " ")
                            THEN Append(newBody, sourceBody[currentOrgSourceI])
                            ELSE newBody)

\* the loop over the hunks, from hunk h
RECURSIVE applyHunks(_, _, _, _, _)
applyHunks(sourceBody, hunks, h, currentOrgSourceI, newBody) ==
    IF h > Len(hunks)
    THEN IF currentOrgSourceI - 1 > Len(sourceBody)
         THEN ApplyPanic
         ELSE ApplyOk(JoinText(newBody \o
                  Slice(sourceBody, currentOrgSourceI - 1, Len(sourceBody))))
    ELSE LET hunk == hunks[h]
             lo == currentOrgSourceI - 1
             hi == hunk.OrigStartLine - 1
         IN  IF lo > hi \/ hi > Len(sourceBody) \/ lo < 0
             THEN ApplyPanic
             ELSE LET r == applyHunkLines(sourceBody, SplitTrimmed(hunk.Body), 1,
                                          hunk.OrigStartLine,
                                          newBody \o Slice(sourceBody, lo, hi))
                  IN  CASE r.err = "panic" -> ApplyPanic
                        [] r.err = "ErrContentMismatch" -> ApplyMismatch
                        [] OTHER -> applyHunks(sourceBody, hunks, h + 1, r.i, r.body)

\* a nil *diff.FileDiff
NilFileDiff == [nil |-> TRUE]

\* applyDiff without the test for a nil diffFile: diffFile.Hunks of a nil
\* pointer is a nil pointer dereference
applyDiff_NoNilCheck(src, diffFile) ==
    IF diffFile = NilFileDiff
    THEN ApplyPanic
    ELSE applyHunks(src, diffFile.Hunks, 1, 1, << >>)

applyDiff(src, diffFile) ==
    IF diffFile = NilFileDiff
    THEN ApplyOk(src)
    ELSE applyHunks(src, diffFile.Hunks, 1, 1, << >>)

-----------------------------------------------------------------------------
(* Line-diff primitive: dbd.DiffChunks of github.com/kylelemons/godebug/diff, *)
(* the O(D(N+M)) shortest-edit-script algorithm.  A chunk holds one added or  *)
(* one deleted line followed by the equal lines after it; chunk 0 holds only  *)
(* equal lines.  Two equal inputs give no chunks at all.                      *)

Chunk(added, deleted, equal) ==
    [Added |-> added, Deleted |-> deleted, Equal |-> equal]

ChunkEmpty(c) == c.Added = << >> /\ c.Deleted = << >> /\ c.Equal = << >>

\* follow the diagonal while the lines agree; returns the new aidx
RECURSIVE Snake(_, _, _, _)
Snake(a, b, aidx, bidx) ==
    IF aidx < Len(a) /\ bidx < Len(b) /\ aidx >= 0 /\ bidx >= 0
       /\ a[aidx + 1] = b[bidx + 1]
    THEN Snake(a, b, aidx + 1, bidx + 1)
    ELSE aidx

\* the loop over the diagonals of one edit distance
RECURSIVE DiagLoop(_, _, _, _, _)
DiagLoop(a, b, endpoint, editDistance, diag) ==
    IF diag > editDistance
    THEN [endpoint |-> endpoint, done |-> FALSE]
    ELSE LET start ==
                 IF diag = -editDistance THEN endpoint[diag + 1]
                 ELSE IF diag = editDistance THEN endpoint[diag - 1] + 1
                 ELSE IF endpoint[diag + 1] > endpoint[diag - 1]
                      THEN endpoint[diag + 1]
                      ELSE endpoint[diag - 1] + 1
             aidx == Snake(a, b, start, start - diag)
             e2 == [endpoint EXCEPT ![diag] = aidx]
         IN  IF aidx >= Len(a) /\ aidx - diag >= Len(b)
             THEN [endpoint |-> e2, done |-> TRUE]
             ELSE DiagLoop(a, b, e2, editDistance, diag + 2)

\* the loop over the edit distances; saved[d + 1] is the endpoint array after
\* distance d
RECURSIVE DistLoop(_, _, _, _, _)
DistLoop(a, b, endpoint, editDistance, saved) ==
    LET r == DiagLoop(a, b, endpoint, editDistance, -editDistance)
        s2 == Append(saved, r.endpoint)
    IN  IF r.done \/ editDistance >= Len(a) + Len(b)
        THEN [editDistance |-> editDistance, saved |-> s2]
        ELSE DistLoop(a, b, r.endpoint, editDistance + 1, s2)

\* walk the saved endpoints back from (x, y); returns chunks 1..d and the
\* point where the distance-0 path ends
RECURSIVE BackTrack(_, _, _, _, _, _, _)
BackTrack(a, b, saved, d, x, y, chunks) ==
    IF d = 0
    THEN [x |-> x, chunks |-> chunks]
    ELSE LET endpoint == saved[d + 1]
             diag == x - y
             insert == diag = -d
                       \/ (diag # d /\ endpoint[diag - 1] < endpoint[diag + 1])
             x1 == endpoint[diag]
             kk == IF insert THEN diag + 1 ELSE diag - 1
             x0 == endpoint[kk]
             xM == IF insert THEN x0 ELSE x0 + 1
             y0 == x0 - kk
             c == Chunk(IF insert THEN <<b[y0 + 1]>> ELSE << >>,
                        IF insert THEN << >> ELSE <<a[x0 + 1]>>,
                        IF xM < x1 THEN Slice(a, xM, x1) ELSE << >>)
         IN  BackTrack(a, b, saved, d - 1, x0, y0, <<c>> \o chunks)

DiffChunks(a, b) ==
    LET maxPath == Len(a) + Len(b) IN
    IF maxPath = 0 THEN << >>
    ELSE LET fw == DistLoop(a, b, [k \in -(maxPath + 1)..(maxPath + 1) |-> 0],
                            0, << >>)
         IN  IF fw.editDistance = 0 THEN << >>
             ELSE LET bt == BackTrack(a, b, fw.saved, fw.editDistance,
                                      Len(a), Len(b), << >>)
                      first == Chunk(<< >>, << >>,
                                     IF bt.x > 0 THEN Slice(a, 0, bt.x) ELSE << >>)
                  IN  IF ChunkEmpty(first) THEN bt.chunks
                      ELSE <<first>> \o bt.chunks

-----------------------------------------------------------------------------
(* Overlap detector *)

OrigEnd(hunk) == hunk.OrigStartLine + hunk.OrigLines

\* overlapLoop that takes every next hunk that starts at or after the start of
\* the last hunk of the other side, wherever that hunk ends
RECURSIVE overlapLoop_NoEnd(_, _, _, _, _, _)
overlapLoop_NoEnd(oldAll, newAll, i, j, oldHunks, newHunks) ==
    IF i < Len(oldAll)
       /\ oldAll[i + 1].OrigStartLine >= newAll[j].OrigStartLine
    THEN overlapLoop_NoEnd(oldAll, newAll, i + 1, j,
                           Append(oldHunks, oldAll[i + 1]), newHunks)
    ELSE IF j < Len(newAll)
            /\ newAll[j + 1].OrigStartLine >= oldAll[i].OrigStartLine
         THEN overlapLoop_NoEnd(oldAll, newAll, i, j + 1,
                                oldHunks, Append(newHunks, newAll[j + 1]))
         ELSE [oldHunks |-> oldHunks, newHunks |-> newHunks, i |-> i, j |-> j]

\* the Loop of findOverlappingHunkSet; i and j count the hunks consumed, so
\* the Go element Hunks[i] is Hunks[i + 1] here and Hunks[i-1] is Hunks[i]
RECURSIVE overlapLoop(_, _, _, _, _, _)
overlapLoop(oldAll, newAll, i, j, oldHunks, newHunks) ==
    IF i < Len(oldAll)
       /\ oldAll[i + 1].OrigStartLine >= newAll[j].OrigStartLine
       /\ oldAll[i + 1].OrigStartLine < OrigEnd(newAll[j])
    THEN overlapLoop(oldAll, newAll, i + 1, j,
                     Append(oldHunks, oldAll[i + 1]), newHunks)
    ELSE IF j < Len(newAll)
            /\ newAll[j + 1].OrigStartLine >= oldAll[i].OrigStartLine
            /\ newAll[j + 1].OrigStartLine < OrigEnd(oldAll[i])
         THEN overlapLoop(oldAll, newAll, i, j + 1,
                          oldHunks, Append(newHunks, newAll[j + 1]))
         ELSE [oldHunks |-> oldHunks, newHunks |-> newHunks, i |-> i, j |-> j]

findOverlappingHunkSet(oldFileDiff, newFileDiff, i, j) ==
    overlapLoop(oldFileDiff.Hunks, newFileDiff.Hunks, i + 1, j + 1,
                <<oldFileDiff.Hunks[i + 1]>>, <<newFileDiff.Hunks[j + 1]>>)

-----------------------------------------------------------------------------
(* Hunk merger *)

\* the placeholder Body: []byte{0} of a freshly configured result hunk
PlaceholderBody == <<<<"NUL">>>>

\* returns the configured hunk and currentOrgI; both lists are non-empty
configureResultHunk(oldHunks, newHunks) ==
    LET firstOldHunk == oldHunks[1]
        firstNewHunk == newHunks[1]
        lastOldHunk == oldHunks[Len(oldHunks)]
        lastNewHunk == newHunks[Len(newHunks)]
        startedWithOld == firstOldHunk.OrigStartLine < firstNewHunk.OrigStartLine
        currentOrgI == IF startedWithOld THEN firstOldHunk.OrigStartLine
                       ELSE firstNewHunk.OrigStartLine
        origStart == IF startedWithOld THEN firstOldHunk.NewStartLine
                     ELSE currentOrgI + firstOldHunk.NewStartLine
                          - firstOldHunk.OrigStartLine
        newStart == IF startedWithOld
                    THEN currentOrgI + firstNewHunk.NewStartLine
                         - firstNewHunk.OrigStartLine
                    ELSE firstNewHunk.NewStartLine
        finishedWithOld == OrigEnd(lastOldHunk) > OrigEnd(lastNewHunk)
        origLines == IF finishedWithOld
                     THEN lastOldHunk.NewStartLine + lastOldHunk.NewLines - origStart
                     ELSE lastOldHunk.NewStartLine + lastOldHunk.NewLines
                          + lastNewHunk.OrigStartLine + lastNewHunk.OrigLines
                          - lastOldHunk.OrigStartLine - lastOldHunk.OrigLines
                          - origStart
        newLines == IF finishedWithOld
                    THEN lastNewHunk.NewStartLine + lastNewHunk.NewLines
                         + lastOldHunk.OrigStartLine + lastOldHunk.OrigLines
                         - lastNewHunk.OrigStartLine - lastNewHunk.OrigLines
                         - newStart
                    ELSE lastNewHunk.NewStartLine + lastNewHunk.NewLines - newStart
    IN  [hunk |-> [OrigStartLine |-> origStart,
                   OrigLines     |-> origLines,
                   NewStartLine  |-> newStart,
                   NewLines      |-> newLines,
                   Body          |-> PlaceholderBody],
         currentOrgI |-> currentOrgI]

\* the run of "+" lines of body from 0-based index i: the index after the run
RECURSIVE addedRunEnd(_, _)
addedRunEnd(body, i) ==
    IF i < Len(body) /\ HasPrefix(body[i + 1], "+")
    THEN addedRunEnd(body, i + 1)
    ELSE i

\* the lines that the chunks of interAddedLines print
RECURSIVE chunkLines(_, _)
chunkLines(chunks, k) ==
    IF k > Len(chunks) THEN << >>
    ELSE LET c == chunks[k] IN
         [n \in 1..Len(c.Added) |-> <<"+">> \o c.Added[n]]
         \o [n \in 1..Len(c.Deleted) |-> <<"-">> \o c.Deleted[n]]
         \o [n \in 1..Len(c.Equal) |-> <<" ">> \o c.Equal[n]]
         \o chunkLines(chunks, k + 1)

\* returns the result lines and the advanced i and j
interAddedLines(i, j, oldHunkBody, newHunkBody) ==
    LET i2 == addedRunEnd(oldHunkBody, i)
        j2 == addedRunEnd(newHunkBody, j)
        oldAddedLines == [n \in 1..(i2 - i) |-> Tail(oldHunkBody[i + n])]
        newAddedLines == [n \in 1..(j2 - j) |-> Tail(newHunkBody[j + n])]
    IN  [result |-> chunkLines(DiffChunks(oldAddedLines, newAddedLines), 1),
         i |-> i2, j |-> j2]

\* does newBody contain a line that is no context line
HasChanges(newBody) == \E k \in 1..Len(newBody) : ~HasPrefix(newBody[k], " ")

\* One iteration of the merge loop.  st holds the loop's variables; i and j
\* are the Go 0-based line indexes (-1: no hunk open on that side).
mergeEnter(oldHunks, newHunks, st) ==
    LET openOld == st.currentOldHunkI < Len(oldHunks) /\ st.i = -1
                   /\ st.currentOrgI = oldHunks[st.currentOldHunkI + 1].OrigStartLine
        openNew == st.currentNewHunkJ < Len(newHunks) /\ st.j = -1
                   /\ st.currentOrgI = newHunks[st.currentNewHunkJ + 1].OrigStartLine
    IN  [st EXCEPT
           !.i = IF openOld THEN 0 ELSE @,
           !.oldHunkBody = IF openOld
                           THEN SplitTrimmed(oldHunks[st.currentOldHunkI + 1].Body)
                           ELSE @,
           !.j = IF openNew THEN 0 ELSE @,
           !.newHunkBody = IF openNew
                           THEN SplitTrimmed(newHunks[st.currentNewHunkJ + 1].Body)
                           ELSE @]

\* mergeClose that leaves the hunk indexes as they are
mergeClose_KeepHunk(st) ==
    LET closeOld == st.i >= Len(st.oldHunkBody)
        closeNew == st.j >= Len(st.newHunkBody)
    IN  [st EXCEPT
           !.i = IF closeOld THEN -1 ELSE @,
           !.j = IF closeNew THEN -1 ELSE @]

\* the end of one iteration: a side whose body is used up is closed
mergeClose(st) ==
    LET closeOld == st.i >= Len(st.oldHunkBody)
        closeNew == st.j >= Len(st.newHunkBody)
    IN  [st EXCEPT
           !.i = IF closeOld THEN -1 ELSE @,
           !.currentOldHunkI = IF closeOld THEN @ + 1 ELSE @,
           !.j = IF closeNew THEN -1 ELSE @,
           !.currentNewHunkJ = IF closeNew THEN @ + 1 ELSE @]

\* the case of the switch in which a line of either side is an added line
mergeAdded(st, r) ==
    [st EXCEPT !.newBody = @ \o r.result, !.i = r.i, !.j = r.j]

\* mergeSwitchLines that copies the line of newDiff for every pair of anchor
\* lines
mergeSwitchLines_CopyNew(st, oldLine, newLine) ==
    IF st.i = -1 /\ st.j = -1 THEN st
    ELSE IF st.i >= 0 /\ st.j = -1
    THEN [st EXCEPT !.newBody = Append(@, revertedLine(oldLine)),
                    !.currentOrgI = IF HasPrefix(oldLine, "+") THEN @ ELSE @ + 1,
                    !.i = @ + 1]
    ELSE IF st.i = -1 /\ st.j >= 0
    THEN [st EXCEPT !.newBody = Append(@, newLine),
                    !.currentOrgI = IF HasPrefix(newLine, "+") THEN @ ELSE @ + 1,
                    !.j = @ + 1]
    ELSE IF HasPrefix(oldLine, "+") \/ HasPrefix(newLine, "+")
    THEN mergeAdded(st, interAddedLines(st.i, st.j, st.oldHunkBody, st.newHunkBody))
    ELSE IF Len(oldLine) = 0 \/ Len(newLine) = 0
    THEN [st EXCEPT !.err = "panic"]
    ELSE IF Tail(oldLine) # Tail(newLine)
    THEN [st EXCEPT !.err = "ErrContentMismatch"]
    ELSE [st EXCEPT !.newBody = Append(@, newLine),
                    !.currentOrgI = @ + 1,
                    !.i = @ + 1,
                    !.j = @ + 1]

\* the switch of the loop body on the current lines of the two sides (the
\* empty line stands for the line of a side that has no hunk open)
mergeSwitchLines(st, oldLine, newLine) ==
    IF st.i = -1 /\ st.j = -1 THEN st
    ELSE IF st.i >= 0 /\ st.j = -1
    THEN [st EXCEPT !.newBody = Append(@, revertedLine(oldLine)),
                    !.currentOrgI = IF HasPrefix(oldLine, "+") THEN @ ELSE @ + 1,
                    !.i = @ + 1]
    ELSE IF st.i = -1 /\ st.j >= 0
    THEN [st EXCEPT !.newBody = Append(@, newLine),
                    !.currentOrgI = IF HasPrefix(newLine, "+") THEN @ ELSE @ + 1,
                    !.j = @ + 1]
    ELSE IF HasPrefix(oldLine, "+") \/ HasPrefix(newLine, "+")
    THEN mergeAdded(st, interAddedLines(st.i, st.j, st.oldHunkBody, st.newHunkBody))
    ELSE IF Len(oldLine) = 0 \/ Len(newLine) = 0
    THEN [st EXCEPT !.err = "panic"]
    ELSE IF Tail(oldLine) # Tail(newLine)
    THEN [st EXCEPT !.err = "ErrContentMismatch"]
    ELSE [st EXCEPT
            !.newBody =
                IF HasPrefix(oldLine, " ") /\ HasPrefix(newLine, " ")
                THEN Append(@, oldLine)
                ELSE IF HasPrefix(oldLine, "-") /\ HasPrefix(newLine, " ")
                THEN Append(@, revertedLine(oldLine))
                ELSE IF HasPrefix(oldLine, " ") /\ HasPrefix(newLine, "-")
                THEN Append(@, newLine)
                ELSE @,
            !.currentOrgI = @ + 1,
            !.i = @ + 1,
            !.j = @ + 1]

\* the switch of the loop body, on a state whose hunks have been entered
mergeSwitch(st) ==
    mergeSwitchLines(st,
        IF st.i >= 0 THEN st.oldHunkBody[st.i + 1] ELSE << >>,
        IF st.j >= 0 THEN st.newHunkBody[st.j + 1] ELSE << >>)

\* the end of one iteration: entered is the state after the hunks were
\* entered, done the state after the switch
mergeFinish(entered, done) ==
    IF done.err # "nil" THEN done
    ELSE IF entered.i = -1 /\ entered.j = -1
    THEN [entered EXCEPT !.err = "hang"]  \* nothing changes: the loop spins
    ELSE mergeClose(done)

mergeEntered(entered) == mergeFinish(entered, mergeSwitch(entered))

mergeStep(oldHunks, newHunks, st) ==
    mergeEntered(mergeEnter(oldHunks, newHunks, st))

RECURSIVE mergeLoop(_, _, _)
mergeLoop(oldHunks, newHunks, st) ==
    IF st.err # "nil" THEN st
    ELSE IF st.currentOldHunkI < Len(oldHunks) \/ st.currentNewHunkJ < Len(newHunks)
    THEN mergeLoop(oldHunks, newHunks, mergeStep(oldHunks, newHunks, st))
    ELSE st

mergeInit(currentOrgI) ==
    [currentOldHunkI |-> 0, currentNewHunkJ |-> 0, i |-> -1, j |-> -1,
     newBody |-> << >>, oldHunkBody |-> << >>, newHunkBody |-> << >>,
     currentOrgI |-> currentOrgI, err |-> "nil"]

\* a nil *diff.Hunk
NilHunk == [nil |-> TRUE]

\* mergeResult that returns the result hunk whether or not its body has a
\* change
mergeResult_AlwaysHunk(cfg, st) ==
    IF st.err # "nil" THEN [hunk |-> NilHunk, err |-> st.err]
    ELSE [hunk |-> [cfg.hunk EXCEPT !.Body = JoinBody(st.newBody)],
          err |-> "nil"]

\* the return of mergeOverlappingHunks: cfg is the configured result hunk,
\* st the state the loop ended in
mergeResult(cfg, st) ==
    IF st.err # "nil" THEN [hunk |-> NilHunk, err |-> st.err]
    ELSE IF HasChanges(st.newBody)
    THEN [hunk |-> [cfg.hunk EXCEPT !.Body = JoinBody(st.newBody)],
          err |-> "nil"]
    ELSE [hunk |-> NilHunk, err |-> "nil"]

mergeConfigured(oldHunks, newHunks, cfg) ==
    mergeResult(cfg, mergeLoop(oldHunks, newHunks, mergeInit(cfg.currentOrgI)))

\* returns [hunk, err]; hunk is NilHunk when the merged body has no change
mergeOverlappingHunks(oldHunks, newHunks) ==
    mergeConfigured(oldHunks, newHunks, configureResultHunk(oldHunks, newHunks))

-----------------------------------------------------------------------------
(* Inter-file-diff driver *)

RECURSIVE interLoop(_, _, _, _, _)

\* the default case of the switch: m is the merged hunk of the overlapping
\* set, i and j the hunk indexes after the set
interMerged(oldFileDiff, newFileDiff, i, j, hunks, m) ==
    IF m.err # "nil" THEN [err |-> m.err, hunks |-> << >>]
    ELSE interLoop(oldFileDiff, newFileDiff, i, j,
                   IF m.hunk # NilHunk THEN Append(hunks, m.hunk) ELSE hunks)

interOverlapping(oldFileDiff, newFileDiff, hunks, set) ==
    interMerged(oldFileDiff, newFileDiff, set.i, set.j, hunks,
                mergeOverlappingHunks(set.oldHunks, set.newHunks))

\* the loops of interFileDiff from hunk indexes i, j (hunks consumed so far)
interLoop(oldFileDiff, newFileDiff, i, j, hunks) ==
    IF i < Len(oldFileDiff.Hunks) /\ j < Len(newFileDiff.Hunks)
    THEN IF OrigEnd(oldFileDiff.Hunks[i + 1]) < newFileDiff.Hunks[j + 1].OrigStartLine
         THEN interLoop(oldFileDiff, newFileDiff, i + 1, j,
                        Append(hunks, revertedHunk(oldFileDiff.Hunks[i + 1])))
         ELSE IF OrigEnd(newFileDiff.Hunks[j + 1]) < oldFileDiff.Hunks[i + 1].OrigStartLine
         THEN interLoop(oldFileDiff, newFileDiff, i, j + 1,
                        Append(hunks, newFileDiff.Hunks[j + 1]))
         ELSE interOverlapping(oldFileDiff, newFileDiff, hunks,
                  findOverlappingHunkSet(oldFileDiff, newFileDiff, i, j))
    ELSE IF i < Len(oldFileDiff.Hunks)
    THEN interLoop(oldFileDiff, newFileDiff, i + 1, j,
                   Append(hunks, revertedHunk(oldFileDiff.Hunks[i + 1])))
    ELSE IF j < Len(newFileDiff.Hunks)
    THEN interLoop(oldFileDiff, newFileDiff, i, j + 1,
                   Append(hunks, newFileDiff.Hunks[j + 1]))
    ELSE [err |-> "nil", hunks |-> hunks]

\* the return of interFileDiff, r the outcome of its loops
interResult(oldFileDiff, newFileDiff, r) ==
    [err |-> r.err,
     fd |-> IF r.err = "nil"
            THEN [OrigName |-> oldFileDiff.NewName,
                  NewName  |-> newFileDiff.NewName,
                  Hunks    |-> r.hunks]
            ELSE NilFileDiff]

\* returns [err, fd]: fd is the result FileDiff when err is "nil"
interFileDiff(oldFileDiff, newFileDiff) ==
    interResult(oldFileDiff, newFileDiff,
                interLoop(oldFileDiff, newFileDiff, 0, 0, << >>))

\* The same loops, one iteration at a time.
\* the variables of interFileDiff before its first loop; taken names the
\* case the last iteration took, set the overlapping set it collected, merged
\* the hunk mergeOverlappingHunks returned for it, and fromI and fromJ the
\* hunk indexes it began with
interInit ==
    [i |-> 0, j |-> 0, hunks |-> << >>, err |-> "nil",
     taken |-> "none", set |-> None, merged |-> None, fromI |-> 0, fromJ |-> 0]

\* interStepMerged with j passed to findOverlappingHunkSet by value: after the
\* set j is what it was before
interStepMerged_KeepJ(st, set, m) ==
    [i |-> set.i, j |-> st.j,
     hunks |-> IF m.err # "nil" THEN << >>
               ELSE IF m.hunk # NilHunk THEN Append(st.hunks, m.hunk)
               ELSE st.hunks,
     err |-> m.err, taken |-> "overlapping",
     set |-> [oldHunks |-> set.oldHunks, newHunks |-> set.newHunks],
     merged |-> m.hunk, fromI |-> st.i, fromJ |-> st.j]

\* the default case of the switch: set is the overlapping set, m the merged hunk
interStepMerged(st, set, m) ==
    [i |-> set.i, j |-> set.j,
     hunks |-> IF m.err # "nil" THEN << >>
               ELSE IF m.hunk # NilHunk THEN Append(st.hunks, m.hunk)
               ELSE st.hunks,
     err |-> m.err, taken |-> "overlapping",
     set |-> [oldHunks |-> set.oldHunks, newHunks |-> set.newHunks],
     merged |-> m.hunk, fromI |-> st.i, fromJ |-> st.j]

interStepOverlapping(st, set) ==
    interStepMerged(st, set, mergeOverlappingHunks(set.oldHunks, set.newHunks))

\* appending the reverted hunk of oldFileDiff and i++
interStepOld(oldFileDiff, st, taken) ==
    [st EXCEPT !.i = @ + 1,
               !.hunks = Append(@, revertedHunk(oldFileDiff.Hunks[st.i + 1])),
               !.taken = taken, !.set = None, !.merged = None,
               !.fromI = st.i, !.fromJ = st.j]

\* appending the hunk of newFileDiff and j++
interStepNew(newFileDiff, st, taken) ==
    [st EXCEPT !.j = @ + 1,
               !.hunks = Append(@, newFileDiff.Hunks[st.j + 1]),
               !.taken = taken, !.set = None, !.merged = None,
               !.fromI = st.i, !.fromJ = st.j]

\* one iteration of the first loop: the switch on the current two hunks
interStep(oldFileDiff, newFileDiff, st) ==
    IF OrigEnd(oldFileDiff.Hunks[st.i + 1]) < newFileDiff.Hunks[st.j + 1].OrigStartLine
    THEN interStepOld(oldFileDiff, st, "old before new")
    ELSE IF OrigEnd(newFileDiff.Hunks[st.j + 1]) < oldFileDiff.Hunks[st.i + 1].OrigStartLine
    THEN interStepNew(newFileDiff, st, "new before old")
    ELSE interStepOverlapping(st,
             findOverlappingHunkSet(oldFileDiff, newFileDiff, st.i, st.j))

-----------------------------------------------------------------------------
(* Chunks-to-FileDiff assembler of mixed mode *)

contextLines == 2

\* the chunk has no line at all
EmptyChunk(c) == Len(c.Added) = 0 /\ Len(c.Deleted) = 0 /\ Len(c.Equal) = 0

\* the chunk has only unchanged lines
EqualOnly(c) == Len(c.Added) = 0 /\ Len(c.Deleted) = 0

RECURSIVE dropLeadingEmpty(_)
dropLeadingEmpty(chunks) ==
    IF Len(chunks) > 0 /\ EmptyChunk(chunks[1])
    THEN dropLeadingEmpty(Tail(chunks))
    ELSE chunks

RECURSIVE dropTrailingEmpty(_)
dropTrailingEmpty(chunks) ==
    IF Len(chunks) > 0 /\ EmptyChunk(chunks[Len(chunks)])
    THEN dropTrailingEmpty(SubSeq(chunks, 1, Len(chunks) - 1))
    ELSE chunks

\* the lines, each with the prefix in front
Prefixed(prefix, lines) == [n \in 1..Len(lines) |-> <<prefix>> \o lines[n]]

\* the variables of convertChunksIntoFileDiff at its start
convertInit ==
    [currentOldI |-> 1, currentNewI |-> 1,
     OrigStartLine |-> 1, NewStartLine |-> 1,
     currentHunkBody |-> << >>, hunks |-> << >>]

\* a first chunk of equal lines: its last contextLines lines open the hunk
convertFirst(st, equal) ==
    IF Len(equal) > contextLines
    THEN [st EXCEPT
            !.currentOldI = @ + Len(equal),
            !.currentNewI = @ + Len(equal),
            !.OrigStartLine = st.currentOldI + Len(equal) - contextLines,
            !.NewStartLine = st.currentNewI + Len(equal) - contextLines,
            !.currentHunkBody =
                Prefixed(" ", Slice(equal, Len(equal) - contextLines, Len(equal)))]
    ELSE [st EXCEPT
            !.currentOldI = @ + Len(equal),
            !.currentNewI = @ + Len(equal),
            !.currentHunkBody = Prefixed(" ", equal)]

\* the first contextLines equal lines of the last chunk
convertLastLines(equal) ==
    IF Len(equal) > contextLines
    THEN Prefixed(" ", Slice(equal, 0, contextLines))
    ELSE Prefixed(" ", equal)

\* the chunks with the equal lines of the last one removed
clearLastEqual(chunks) ==
    [chunks EXCEPT ![Len(chunks)] = [@ EXCEPT !.Equal = << >>]]

\* the added and deleted lines of chunk c go into the current hunk
convertChanges(st, c) ==
    [st EXCEPT
        !.currentHunkBody = @ \o Prefixed("+", c.Added) \o Prefixed("-", c.Deleted),
        !.currentNewI = @ + Len(c.Added),
        !.currentOldI = @ + Len(c.Deleted)]

\* a hunk with the coordinates of the current hunk
convertHunk(st, origLines, newLines, body) ==
    [OrigStartLine |-> st.OrigStartLine, OrigLines |-> origLines,
     NewStartLine |-> st.NewStartLine, NewLines |-> newLines,
     Body |-> JoinBody(body)]

\* more than 2*contextLines+1 equal lines: the current hunk is closed and a
\* new one is started
convertSplit(st, equal) ==
    [currentOldI |-> st.currentOldI + Len(equal),
     currentNewI |-> st.currentNewI + Len(equal),
     OrigStartLine |-> st.currentOldI + Len(equal) - contextLines,
     NewStartLine |-> st.currentNewI + Len(equal) - contextLines,
     currentHunkBody |->
         Prefixed(" ", Slice(equal, Len(equal) - contextLines - 1, Len(equal))),
     hunks |->
         IF Len(st.currentHunkBody) > 0
         THEN Append(st.hunks,
                convertHunk(st,
                    st.currentOldI + contextLines + 1 - st.OrigStartLine,
                    st.currentNewI + contextLines + 1 - st.NewStartLine,
                    st.currentHunkBody \o Prefixed(" ", Slice(equal, 0, contextLines))))
         ELSE st.hunks]

\* convertEqual that starts a new hunk from 2*contextLines+1 equal lines on
convertEqual_SplitEarly(st, equal) ==
    IF Len(equal) > 2 * contextLines
    THEN convertSplit(st, equal)
    ELSE [st EXCEPT
            !.currentHunkBody = @ \o Prefixed(" ", equal),
            !.currentOldI = @ + Len(equal),
            !.currentNewI = @ + Len(equal)]

\* the equal lines of a chunk, after its changes went into the hunk
convertEqual(st, equal) ==
    IF Len(equal) > 2 * contextLines + 1
    THEN convertSplit(st, equal)
    ELSE [st EXCEPT
            !.currentHunkBody = @ \o Prefixed(" ", equal),
            !.currentOldI = @ + Len(equal),
            !.currentNewI = @ + Len(equal)]

\* the loop over the chunks, from chunk k
RECURSIVE convertLoop(_, _, _)
convertLoop(chunks, k, st) ==
    IF k > Len(chunks) THEN st
    ELSE convertLoop(chunks, k + 1,
                     convertEqual(convertChanges(st, chunks[k]), chunks[k].Equal))

\* lastLines go into the last hunk, which is closed and appended
convertClose(st, lastLines) ==
    Append(st.hunks,
           convertHunk(st,
               st.currentOldI + Len(lastLines) - st.OrigStartLine,
               st.currentNewI + Len(lastLines) - st.NewStartLine,
               st.currentHunkBody \o lastLines))

\* the part after the first chunk was handled: chunks is not empty
convertRest(chunks, st) ==
    convertClose(convertLoop(clearLastEqual(chunks), 1, st),
                 convertLastLines(chunks[Len(chunks)].Equal))

\* the part after the empty chunks were dropped
convertTrimmed(chunks, hunks) ==
    IF Len(chunks) = 1 /\ EqualOnly(chunks[1]) THEN hunks
    ELSE IF Len(chunks) = 0 THEN hunks
    ELSE IF EqualOnly(chunks[1])
    THEN hunks \o convertRest(Tail(chunks), convertFirst(convertInit, chunks[1].Equal))
    ELSE hunks \o convertRest(chunks, convertInit)

\* the hunks of fileDiff after the call; hunks are the hunks it had before
convertChunksIntoFileDiff(chunks, hunks) ==
    convertTrimmed(dropTrailingEmpty(dropLeadingEmpty(chunks)), hunks)

\* the result of mixedMode, given the two patched texts
mixedResult(updatedOldSource, updatedNewSource, oldFileDiff, newFileDiff) ==
    IF updatedOldSource.err # "nil"
    THEN [err |-> updatedOldSource.err, fd |-> NilFileDiff]
    ELSE IF updatedNewSource.err # "nil"
    THEN [err |-> updatedNewSource.err, fd |-> NilFileDiff]
    ELSE [err |-> "nil",
          fd |-> [OrigName |-> IF oldFileDiff # NilFileDiff
                               THEN oldFileDiff.NewName ELSE "",
                  NewName  |-> IF newFileDiff # NilFileDiff
                               THEN newFileDiff.NewName ELSE "",
                  Hunks    |-> convertChunksIntoFileDiff(
                                   DiffChunks(TrimSuffixNL(updatedOldSource.out),
                                              TrimSuffixNL(updatedNewSource.out)),
                                   << >>)]]

\* returns [err, fd]
mixedMode(oldSourceContent, newSourceContent, oldFileDiff, newFileDiff) ==
    mixedResult(applyDiff(oldSourceContent, oldFileDiff),
                applyDiff(newSourceContent, newFileDiff),
                oldFileDiff, newFileDiff)

-----------------------------------------------------------------------------
(* Well-formed inputs: unified diffs of a base text *)

MaxSrc   == 3   \* lines of the base text
MaxBody  == 3   \* body lines of one input hunk
MaxHunks == 2   \* hunks of one input FileDiff
MaxChanges == 2 \* "+" and "-" lines of one input FileDiff

\* contents of added lines
AddedContents == {"x", "y"}

\* the base text S: MaxSrc distinct lines
BaseLine(k) == <<"s", k>>
BaseText == [k \in 1..MaxSrc |-> BaseLine(k)]

IsAnchor(line) == HasPrefix(line, " ") \/ HasPrefix(line, "-")
IsChange(line) == HasPrefix(line, "+") \/ HasPrefix(line, "-")

\* number of body lines that consume a line of the original / of the new file
OrigCount(body) == Cardinality({k \in 1..Len(body) : IsAnchor(body[k])})
NewCount(body) ==
    Cardinality({k \in 1..Len(body) :
                    HasPrefix(body[k], " ") \/ HasPrefix(body[k], "+")})

ChangeCount(body) == Cardinality({k \in 1..Len(body) : IsChange(body[k])})

\* the bodies of n lines that start at line pos of text S and match it, with at
\* most budget changed lines
RECURSIVE HunkBodies(_, _, _, _)
HunkBodies(S, pos, n, budget) ==
    IF n = 0 THEN {<< >>}
    ELSE (IF budget = 0 THEN {}
          ELSE {<<<<"+", c>>>> \o rest :
                   c \in AddedContents, rest \in HunkBodies(S, pos, n - 1, budget - 1)})
         \cup (IF pos > Len(S) \/ budget = 0 THEN {}
               ELSE {<<<<"-">> \o S[pos]>> \o rest :
                        rest \in HunkBodies(S, pos + 1, n - 1, budget - 1)})
         \cup (IF pos > Len(S) THEN {}
               ELSE {<<<<" ">> \o S[pos]>> \o rest :
                        rest \in HunkBodies(S, pos + 1, n - 1, budget)})

MkHunk(origStart, newStart, body) ==
    [OrigStartLine |-> origStart,
     OrigLines     |-> OrigCount(body),
     NewStartLine  |-> newStart,
     NewLines      |-> NewCount(body),
     Body          |-> body]

\* the bodies of a well-formed hunk at line s: at least one line of the
\* original and at least one change
WellFormedBodies(S, s, budget) ==
    {b \in UNION {HunkBodies(S, s, m, budget) : m \in 1..MaxBody} :
        OrigCount(b) >= 1 /\ ChangeCount(b) >= 1}

\* hunk lists of at most n hunks on S, ordered and not overlapping, whose first
\* hunk starts at line from or later; delta is the line-count change of the
\* hunks before and budget the number of changed lines left
RECURSIVE HunkLists(_, _, _, _, _)
HunkLists(S, from, delta, n, budget) ==
    {<< >>} \cup
    (IF n = 0 \/ budget = 0 THEN {}
     ELSE UNION {
            UNION {
              {<<MkHunk(s, s + delta, b)>> \o rest :
                  rest \in HunkLists(S, s + OrigCount(b),
                                     delta + NewCount(b) - OrigCount(b), n - 1,
                                     budget - ChangeCount(b))}
              : b \in WellFormedBodies(S, s, budget)}
            : s \in from..Len(S)})

MkFileDiff(hunks) == [OrigName |-> "f", NewName |-> "f", Hunks |-> hunks]

\* the FileDiffs with at least one hunk that apply cleanly to S
CleanFileDiffs(S) ==
    {MkFileDiff(h) : h \in HunkLists(S, 1, 0, MaxHunks, MaxChanges) \ {<< >>}}

\* the input patches of the base text
BasePatches == CleanFileDiffs(BaseText)

-----------------------------------------------------------------------------
(* Interdiff of two patches of one base text *)

InitInter ==
    /\ pc = "start"
    /\ source = BaseText
    /\ newSource = EmptyString
    /\ oldDiff \in BasePatches
    /\ newDiff \in BasePatches
    /\ patched = [old |-> None, new |-> None, inter |-> None, back |-> None]
    /\ fileDiff = None
    /\ IdleInterDiff
    /\ IdlePath

\* the two patched states S+oldDiff and S+newDiff
PatchBoth ==
    /\ pc = "start"
    /\ patched' = [patched EXCEPT !.old = applyDiff(source, oldDiff),
                                  !.new = applyDiff(source, newDiff)]
    /\ pc' = "patched"
    /\ UNCHANGED <<source, newSource, oldDiff, newDiff, fileDiff>>
    /\ UNCHANGED <<interDiffVars, pathVars>>

InterFileDiff ==
    /\ pc = "patched"
    /\ fileDiff' = interFileDiff(oldDiff, newDiff)
    /\ pc' = "merged"
    /\ UNCHANGED <<source, newSource, oldDiff, newDiff, patched>>
    /\ UNCHANGED <<interDiffVars, pathVars>>

\* apply the interdiff to S+oldDiff
ApplyInter ==
    /\ pc = "merged"
    /\ fileDiff.err = "nil"
    /\ patched' = [patched EXCEPT !.inter = applyDiff(patched.old.out, fileDiff.fd)]
    /\ pc' = "applied"
    /\ UNCHANGED <<source, newSource, oldDiff, newDiff, fileDiff>>
    /\ UNCHANGED <<interDiffVars, pathVars>>

\* applyDiff of the outcome f of interFileDiff, when it is no error
applyInter(text, f) ==
    IF f.err = "nil" THEN applyDiff(text, f.fd)
    ELSE [out |-> EmptyString, err |-> f.err]

\* the reverse direction: apply interFileDiff(newDiff, oldDiff) to S+newDiff
ApplyBack ==
    /\ pc = "applied"
    /\ patched' = [patched EXCEPT !.back =
                      applyInter(patched.new.out, interFileDiff(newDiff, oldDiff))]
    /\ pc' = "symmetric"
    /\ UNCHANGED <<source, newSource, oldDiff, newDiff, fileDiff>>
    /\ UNCHANGED <<interDiffVars, pathVars>>

NextInter == PatchBoth \/ InterFileDiff \/ ApplyInter \/ ApplyBack

SpecInter == InitInter /\ [][NextInter]_vars

-----------------------------------------------------------------------------
(* Applying a patch and its inverse *)

\* text S with line k replaced by a line that occurs nowhere in S
ReplaceLine(S, k) == [S EXCEPT ![k] = <<"z">>]

\* patches written against a text that differs from the base in one line: they
\* apply to the base only where they do not touch that line
StalePatches == UNION {CleanFileDiffs(ReplaceLine(BaseText, k)) : k \in 1..MaxSrc}

ApplyPatches == BasePatches \cup StalePatches

InitApply ==
    /\ pc = "start"
    /\ source = BaseText
    /\ newSource = EmptyString
    /\ oldDiff \in ApplyPatches
    /\ newDiff = None
    /\ patched = [old |-> None, new |-> None, inter |-> None, back |-> None]
    /\ fileDiff = None
    /\ IdleInterDiff
    /\ IdlePath

\* applyDiff(source, oldDiff)
ApplyDiff ==
    /\ pc = "start"
    /\ patched' = [patched EXCEPT !.old = applyDiff(source, oldDiff)]
    /\ pc' = "patched"
    /\ UNCHANGED <<source, newSource, oldDiff, newDiff, fileDiff>>
    /\ UNCHANGED <<interDiffVars, pathVars>>

\* revertHunks on a copy of oldDiff
RevertHunks ==
    /\ pc = "patched"
    /\ fileDiff' = revertHunks(oldDiff)
    /\ pc' = "reverted"
    /\ UNCHANGED <<source, newSource, oldDiff, newDiff, patched>>
    /\ UNCHANGED <<interDiffVars, pathVars>>

\* revertHunks on the reverted copy
RevertAgain ==
    /\ pc = "reverted"
    /\ newDiff' = revertHunks(fileDiff)
    /\ pc' = "reverted twice"
    /\ UNCHANGED <<source, newSource, oldDiff, patched, fileDiff>>
    /\ UNCHANGED <<interDiffVars, pathVars>>

\* applyDiff of the reverted patch to the patched text
ApplyReverted ==
    /\ pc = "reverted"
    /\ patched.old.err = "nil"
    /\ patched' = [patched EXCEPT !.back = applyDiff(patched.old.out, fileDiff)]
    /\ pc' = "unapplied"
    /\ UNCHANGED <<source, newSource, oldDiff, newDiff, fileDiff>>
    /\ UNCHANGED <<interDiffVars, pathVars>>

NextApply == ApplyDiff \/ RevertHunks \/ RevertAgain \/ ApplyReverted

SpecApply == InitApply /\ [][NextApply]_vars

\* the base text with one more line after its last line
LongText == BaseText \o <<BaseLine(MaxSrc + 1)>>

\* patches written against the longer text: the hunks that reach its last line
\* run past the end of the base text
InitApplyPast ==
    /\ pc = "start"
    /\ source = BaseText
    /\ newSource = EmptyString
    /\ oldDiff \in CleanFileDiffs(LongText)
    /\ newDiff = None
    /\ patched = [old |-> None, new |-> None, inter |-> None, back |-> None]
    /\ fileDiff = None
    /\ IdleInterDiff
    /\ IdlePath

SpecApplyPast == InitApplyPast /\ [][NextApply]_vars

\* the lines of the source strings: an empty line, a line of the base text
\* and another line
SourceLines == {<< >>, BaseLine(1), <<"x">>}

\* the source strings of up to MaxSrc lines, as their Split images: the empty
\* string, texts that end in a newline and texts that do not
SourceTexts == UNION {[1..n -> SourceLines] : n \in 1..MaxSrc}

\* applyDiff is called with an empty patch: no FileDiff at all, or a FileDiff
\* without hunks
InitApplyEmpty ==
    /\ pc = "start"
    /\ source \in SourceTexts
    /\ newSource = EmptyString
    /\ oldDiff \in {NilFileDiff, MkFileDiff(<< >>)}
    /\ newDiff = None
    /\ patched = [old |-> None, new |-> None, inter |-> None, back |-> None]
    /\ fileDiff = None
    /\ IdleInterDiff
    /\ IdlePath

SpecApplyEmpty == InitApplyEmpty /\ [][ApplyDiff]_vars

-----------------------------------------------------------------------------
(* The merge loop of mergeOverlappingHunks, one iteration at a time *)

\* the first hunks of the two patches overlap: interFileDiff takes the default
\* case of its switch and calls findOverlappingHunkSet for them
FirstHunksOverlap(old, new) ==
    /\ ~(OrigEnd(old.Hunks[1]) < new.Hunks[1].OrigStartLine)
    /\ ~(OrigEnd(new.Hunks[1]) < old.Hunks[1].OrigStartLine)

\* the hunk lists mergeOverlappingHunks is called with: the overlapping set of
\* the first hunks of a patch a of the base text and a patch b that is one
\* too, or that is written against a text that differs from the base in one
\* line
InitMerge ==
    /\ pc = "start"
    /\ source = BaseText
    /\ newSource = EmptyString
    /\ \E a \in BasePatches, b \in BasePatches \cup StalePatches :
          /\ FirstHunksOverlap(a, b)
          /\ oldDiff = MkFileDiff(findOverlappingHunkSet(a, b, 0, 0).oldHunks)
          /\ newDiff = MkFileDiff(findOverlappingHunkSet(a, b, 0, 0).newHunks)
    /\ patched = [old |-> None, new |-> None, inter |-> None, back |-> None]
    /\ fileDiff = None
    /\ IdleInterDiff
    /\ IdlePath

\* mergeOverlappingHunks is entered: the result hunk is configured and the
\* loop variables are set
MergeStart ==
    /\ pc = "start"
    /\ fileDiff' = [entered |-> None, switched |-> None,
                    st |-> mergeInit(configureResultHunk(oldDiff.Hunks,
                                                         newDiff.Hunks).currentOrgI)]
    /\ pc' = "merging"
    /\ UNCHANGED <<source, newSource, oldDiff, newDiff, patched>>
    /\ UNCHANGED <<interDiffVars, pathVars>>

\* one iteration of the merge loop: entered is the state after the two
\* "Entering next hunk" blocks, switched the state after the switch, st the
\* state at the end of the iteration
MergeIterate ==
    /\ pc = "merging"
    /\ fileDiff.st.err = "nil"
    /\ \/ fileDiff.st.currentOldHunkI < Len(oldDiff.Hunks)
       \/ fileDiff.st.currentNewHunkJ < Len(newDiff.Hunks)
    /\ fileDiff' =
         [entered  |-> mergeEnter(oldDiff.Hunks, newDiff.Hunks,
                                  fileDiff.st),
          switched |-> mergeSwitch(mergeEnter(oldDiff.Hunks,
                                              newDiff.Hunks, fileDiff.st)),
          st       |-> mergeStep(oldDiff.Hunks, newDiff.Hunks,
                                 fileDiff.st)]
    /\ UNCHANGED <<pc, source, newSource, oldDiff, newDiff, patched>>
    /\ UNCHANGED <<interDiffVars, pathVars>>

\* mergeOverlappingHunks returns: with the error of the loop, or with the
\* result hunk after the loop has ended
MergeReturn ==
    /\ pc = "merging"
    /\ fileDiff.st.err # "hang"
    /\ \/ fileDiff.st.err # "nil"
       \/ /\ fileDiff.st.currentOldHunkI >= Len(oldDiff.Hunks)
          /\ fileDiff.st.currentNewHunkJ >= Len(newDiff.Hunks)
    /\ patched' = [patched EXCEPT !.inter =
                      mergeResult(configureResultHunk(oldDiff.Hunks,
                                                      newDiff.Hunks),
                                  fileDiff.st)]
    /\ pc' = "merged"
    /\ UNCHANGED <<source, newSource, oldDiff, newDiff, fileDiff>>
    /\ UNCHANGED <<interDiffVars, pathVars>>

\* the caller, interFileDiff, with the chain as its first overlapping set:
\* the merged hunk is appended to the hunks of the result unless it is nil
MergeAppend ==
    /\ pc = "merged"
    /\ patched' = [patched EXCEPT !.back =
                      interStepMerged(interInit,
                          [oldHunks |-> oldDiff.Hunks, newHunks |-> newDiff.Hunks,
                           i |-> Len(oldDiff.Hunks), j |-> Len(newDiff.Hunks)],
                          patched.inter)]
    /\ pc' = "appended"
    /\ UNCHANGED <<source, newSource, oldDiff, newDiff, fileDiff>>
    /\ UNCHANGED <<interDiffVars, pathVars>>

NextMerge == MergeStart \/ MergeIterate \/ MergeReturn \/ MergeAppend

SpecMerge == InitMerge /\ [][NextMerge]_vars

\* mergeOverlappingHunks has a step to take: it is about to start, it is in
\* its loop (a loop that spins without a change takes no step any more) or
\* its caller is about to append the merged hunk
MergeRunning ==
    \/ pc = "start"
    \/ pc = "merging" /\ fileDiff.st.err # "hang"
    \/ pc = "merged"

\* the goroutine that runs mergeOverlappingHunks is scheduled as long as it
\* has a step to take: weak fairness of NextMerge, with the enabling
\* condition of <<NextMerge>>_vars written out as MergeRunning (every action
\* of NextMerge changes pc or fileDiff)
SpecMergeFair ==
    SpecMerge /\ ([]<>~MergeRunning \/ []<><<NextMerge>>_vars)

-----------------------------------------------------------------------------
(* The loops of interFileDiff, one iteration at a time *)

\* before the call of interFileDiff
InitDriver ==
    /\ pc = "start"
    /\ source = BaseText
    /\ newSource = EmptyString
    /\ oldDiff = None
    /\ newDiff = None
    /\ patched = [old |-> None, new |-> None, inter |-> None, back |-> None]
    /\ fileDiff = None
    /\ IdleInterDiff
    /\ IdlePath

\* interFileDiff is entered with oldFileDiff a patch of the base text and
\* newFileDiff a patch that is one too or that is written against a text that
\* differs in one line: the result FileDiff is configured, i, j := 0, 0
DriverStart ==
    /\ pc = "start"
    /\ oldDiff' \in BasePatches
    /\ newDiff' \in BasePatches \cup StalePatches
    /\ fileDiff' = interInit
    /\ pc' = "first loop"
    /\ UNCHANGED <<source, newSource, patched>>
    /\ UNCHANGED <<interDiffVars, pathVars>>

\* one iteration of the loop over both hunk lists; the error of the merger
\* returns from interFileDiff
DriverIterate ==
    /\ pc = "first loop"
    /\ fileDiff.i < Len(oldDiff.Hunks) /\ fileDiff.j < Len(newDiff.Hunks)
    /\ fileDiff' = interStep(oldDiff, newDiff, fileDiff)
    /\ pc' = IF interStep(oldDiff, newDiff, fileDiff).err # "nil"
             THEN "returned" ELSE "first loop"
    /\ patched' = IF interStep(oldDiff, newDiff, fileDiff).err # "nil"
                  THEN [patched EXCEPT !.inter =
                           interResult(oldDiff, newDiff,
                                       interStep(oldDiff, newDiff, fileDiff))]
                  ELSE patched
    /\ UNCHANGED <<source, newSource, oldDiff, newDiff>>
    /\ UNCHANGED <<interDiffVars, pathVars>>

\* one iteration of the loop over the hunks left in oldFileDiff
DriverRestOld ==
    /\ pc = "first loop"
    /\ ~(fileDiff.i < Len(oldDiff.Hunks) /\ fileDiff.j < Len(newDiff.Hunks))
    /\ fileDiff.i < Len(oldDiff.Hunks)
    /\ fileDiff' = interStepOld(oldDiff, fileDiff, "rest of old")
    /\ UNCHANGED <<pc, source, newSource, oldDiff, newDiff, patched>>
    /\ UNCHANGED <<interDiffVars, pathVars>>

\* one iteration of the loop over the hunks left in newFileDiff
DriverRestNew ==
    /\ pc = "first loop"
    /\ ~(fileDiff.i < Len(oldDiff.Hunks))
    /\ fileDiff.j < Len(newDiff.Hunks)
    /\ fileDiff' = interStepNew(newDiff, fileDiff, "rest of new")
    /\ UNCHANGED <<pc, source, newSource, oldDiff, newDiff, patched>>
    /\ UNCHANGED <<interDiffVars, pathVars>>

\* return resultFileDiff, nil
DriverReturn ==
    /\ pc = "first loop"
    /\ ~(fileDiff.i < Len(oldDiff.Hunks))
    /\ ~(fileDiff.j < Len(newDiff.Hunks))
    /\ patched' = [patched EXCEPT !.inter = interResult(oldDiff, newDiff, fileDiff)]
    /\ pc' = "returned"
    /\ UNCHANGED <<source, newSource, oldDiff, newDiff, fileDiff>>
    /\ UNCHANGED <<interDiffVars, pathVars>>

NextDriver ==
    DriverStart \/ DriverIterate \/ DriverRestOld \/ DriverRestNew \/ DriverReturn

SpecDriver == InitDriver /\ [][NextDriver]_vars

\* interFileDiff has a step to take: it is about to start or it is in its
\* loops, where a hunk is left for an iteration or the return is next
DriverRunning == pc \in {"start", "first loop"}

\* the goroutine that runs interFileDiff is scheduled as long as it has a
\* step to take: weak fairness of NextDriver, with the enabling condition of
\* <<NextDriver>>_vars written out as DriverRunning (every action of
\* NextDriver changes pc or fileDiff)
SpecDriverFair ==
    SpecDriver /\ ([]<>~DriverRunning \/ []<><<NextDriver>>_vars)


-----------------------------------------------------------------------------
(* Mixed mode: two sources, each with its patch *)

MaxMix == 8   \* lines of the old source of mixed mode

MixText == [k \in 1..MaxMix |-> BaseLine(k)]

\* the new source: the old one, or the old one with another last line
MixSources == {MixText, ReplaceLine(MixText, MaxMix)}

\* one-edit hunk bodies at line k of S: line k deleted, or a line added before it
MixBodies(S, k) ==
    { << <<"-">> \o S[k] >>,
      << <<"+", "x">>, <<" ">> \o S[k] >> }

\* hunk lists of one or two one-edit hunks on S
MixHunkLists(S) ==
    UNION { { <<MkHunk(k, k, b)>> : b \in MixBodies(S, k) } : k \in 1..Len(S) }
    \cup
    UNION { UNION { { <<MkHunk(k, k, b), MkHunk(m, m + NewCount(b) - OrigCount(b), c)>>
                      : c \in MixBodies(S, m) }
                    : b \in MixBodies(S, k) }
            : <<k, m>> \in {km \in (1..Len(S)) \X (1..Len(S)) : km[1] < km[2]} }

\* the patches of S: no patch at all (nil), or one or two one-edit hunks
MixPatches(S) == {NilFileDiff} \cup {MkFileDiff(h) : h \in MixHunkLists(S)}

InitMixed ==
    /\ pc = "start"
    /\ source = MixText
    /\ newSource \in MixSources
    /\ oldDiff \in MixPatches(source)
    /\ newDiff \in MixPatches(newSource)
    /\ patched = [old |-> None, new |-> None, inter |-> None, back |-> None]
    /\ fileDiff = None
    /\ IdleInterDiff
    /\ IdlePath

\* mixedMode(source, newSource, oldDiff, newDiff); the two patched texts it
\* computes on the way are kept in patched
MixedMode ==
    /\ pc = "start"
    /\ patched' = [patched EXCEPT !.old = applyDiff(source, oldDiff),
                                  !.new = applyDiff(newSource, newDiff)]
    /\ fileDiff' = mixedMode(source, newSource, oldDiff, newDiff)
    /\ pc' = "mixed"
    /\ UNCHANGED <<source, newSource, oldDiff, newDiff>>
    /\ UNCHANGED <<interDiffVars, pathVars>>

\* applyDiff of the result of mixedMode to the old patched text
ApplyMixed ==
    /\ pc = "mixed"
    /\ fileDiff.err = "nil"
    /\ patched' = [patched EXCEPT !.inter = applyDiff(patched.old.out, fileDiff.fd)]
    /\ pc' = "applied"
    /\ UNCHANGED <<source, newSource, oldDiff, newDiff, fileDiff>>
    /\ UNCHANGED <<interDiffVars, pathVars>>

NextMixed == MixedMode \/ ApplyMixed

SpecMixed == InitMixed /\ [][NextMixed]_vars

-----------------------------------------------------------------------------
(* InterDiff: the driver over the files of two diffs and its workers *)

MaxFiles == 3   \* files named in one diff

\* the file names, in ascending order
AllNames == <<"a", "b", "c", "d">>
FileNames == SubSeq(AllNames, 1, MaxFiles)

\* the place of a name in the order of strings
Rank(name) == CHOOSE k \in 1..Len(AllNames) : AllNames[k] = name

\* x goes behind every element that is not greater than it
RECURSIVE insertStable(_, _)
insertStable(sorted, x) ==
    IF sorted = << >> THEN <<x>>
    ELSE IF Rank(x.OrigName) < Rank(sorted[1].OrigName)
    THEN <<x>> \o sorted
    ELSE <<sorted[1]>> \o insertStable(Tail(sorted), x)

\* sort.SliceStable by OrigName
RECURSIVE sortStable(_, _)
sortStable(fds, sorted) ==
    IF fds = << >> THEN sorted
    ELSE sortStable(Tail(fds), insertStable(sorted, fds[1]))

\* the text "Only in <dir>: <base>\n" for the file called name
OnlyIn(name) == [onlyIn |-> name]

\* the text diff.PrintFileDiff returns for a FileDiff: its header lines and
\* its hunks
PrintFileDiff(fd) == [OrigName |-> fd.OrigName, NewName |-> fd.NewName,
                      Hunks |-> fd.Hunks]

interPrintSingleFileDiff(diffFile) ==
    IF diffFile.NewName = "" THEN OnlyIn(diffFile.OrigName)
    ELSE PrintFileDiff(diffFile)

\* resultFiles[key] = value
MapInsert(map, key, value) ==
    [k \in DOMAIN map \cup {key} |-> IF k = key THEN value ELSE map[k]]

\* the values of the map in ascending order of their keys
RECURSIVE ConcatInOrder(_, _)
ConcatInOrder(map, k) ==
    IF k > Len(AllNames) THEN << >>
    ELSE (IF AllNames[k] \in DOMAIN map THEN <<map[AllNames[k]]>> ELSE << >>)
         \o ConcatInOrder(map, k + 1)

\* what one iteration of the loops over the files does: the new indexes, the
\* map insertion it performs, the worker it starts
Effect(i, j, olds, write, spawn) ==
    [i |-> i, j |-> j, olds |-> olds, write |-> write, spawn |-> spawn]

\* both lists name the same file
sameFile(olds, news, i, j) ==
    IF olds[i + 1].NewName = "" /\ news[j + 1].NewName = ""
    THEN Effect(i + 1, j + 1, olds, None, FALSE)
    ELSE IF olds[i + 1].NewName = ""
    THEN Effect(i + 1, j + 1, olds,
                [key |-> news[j + 1].OrigName, value |-> OnlyIn(news[j + 1].NewName)],
                FALSE)
    ELSE IF news[j + 1].NewName = ""
    THEN Effect(i + 1, j + 1, olds,
                [key |-> olds[i + 1].OrigName, value |-> OnlyIn(olds[i + 1].NewName)],
                FALSE)
    ELSE Effect(i + 1, j + 1, olds, None, TRUE)

\* the file is named only in oldDiff: its hunks are reverted in place
onlyOld(olds, i, j) ==
    Effect(i + 1, j, [olds EXCEPT ![i + 1] = revertHunks(@)],
           [key |-> olds[i + 1].OrigName,
            value |-> interPrintSingleFileDiff(revertHunks(olds[i + 1]))],
           FALSE)

\* one iteration of the main loop, or of the two loops after it
driverStep(olds, news, i, j) ==
    IF i < Len(olds) /\ j < Len(news)
    THEN IF olds[i + 1].OrigName = news[j + 1].OrigName
         THEN sameFile(olds, news, i, j)
         ELSE IF Rank(olds[i + 1].OrigName) < Rank(news[j + 1].OrigName)
         THEN onlyOld(olds, i, j)
         ELSE Effect(i, j + 1, olds,
                     [key |-> news[j + 1].OrigName,
                      value |-> interPrintSingleFileDiff(news[j + 1])],
                     FALSE)
    ELSE IF i < Len(olds)
    THEN Effect(i + 1, j, olds,
                [key |-> olds[i + 1].OrigName,
                 value |-> interPrintSingleFileDiff(olds[i + 1])],
                FALSE)
    ELSE Effect(i, j + 1, olds,
                [key |-> news[j + 1].OrigName,
                 value |-> interPrintSingleFileDiff(news[j + 1])],
                FALSE)

\* the goroutine started for the files at i and j
Worker(i, j) == [i |-> i, j |-> j, at |-> "started", value |-> None, err |-> "nil"]

\* the number of map insertions in progress
Writers ==
    Cardinality({w \in 1..Len(workers) : workers[w].at = "writing"})
    + (IF pc = "writing" THEN 1 ELSE 0)

\* the hunk lists a changed file may have
FileHunks ==
    { <<MkHunk(1, 1, << <<"-">> \o BaseLine(1) >>)>>,
      <<MkHunk(3, 3, << <<"-">> \o BaseLine(3) >>)>>,
      <<MkHunk(1, 1, << <<"+", "x">>, <<" ">> \o BaseLine(1) >>)>>,
      <<MkHunk(1, 1, << <<"-", "z">> >>)>> }

\* the FileDiffs of the file called name: the file is deleted, or changed
FileEntries(name) ==
    { [OrigName |-> name, NewName |-> "", Hunks |-> << >>] }
    \cup { [OrigName |-> name, NewName |-> name, Hunks |-> h] : h \in FileHunks }

\* diffs of at most n FileDiffs of distinct files, in any order
RECURSIVE MultiDiffs(_, _)
MultiDiffs(names, n) ==
    {<< >>} \cup
    (IF n = 0 THEN {}
     ELSE UNION { UNION { { <<e>> \o rest : rest \in MultiDiffs(names \ {name}, n - 1) }
                          : e \in FileEntries(name) }
                  : name \in names })

\* the diffs that name fewer than MaxFiles files
InputDiffs == MultiDiffs({FileNames[k] : k \in 1..(MaxFiles - 1)}, MaxFiles - 1)

\* the diff that changes every file, the k-th file by the hunk list hunks[k]
ChangedFiles(hunks) ==
    [k \in 1..MaxFiles |->
        [OrigName |-> FileNames[k], NewName |-> FileNames[k], Hunks |-> hunks[k]]]

FullDiffs == {ChangedFiles(h) : h \in [1..MaxFiles -> FileHunks]}

\* every file is changed by the same hunk list
UniformDiffs == {ChangedFiles([k \in 1..MaxFiles |-> h]) : h \in FileHunks}

\* an io.Reader over a diff: the FileDiffs its text holds
Reader(fds) == [files |-> fds]

\* diff.NewMultiFileDiffReader(r).ReadAllFiles() of github.com/sourcegraph/go-diff
ReadAllFiles(r) == r.files

\* one changed file, with any patch of the base text
SingleFileDiffs ==
    { << [OrigName |-> "a", NewName |-> "a", Hunks |-> fd.Hunks] >> : fd \in BasePatches }

InitInterDiff ==
    /\ pc = "start"
    /\ source = EmptyString /\ newSource = EmptyString
    /\ patched = None /\ fileDiff = None
    /\ \E olds \in InputDiffs \cup SingleFileDiffs \cup UniformDiffs :
          /\ oldDiff = Reader(olds)
          /\ \/ olds \in InputDiffs /\ newDiff \in {Reader(news) : news \in InputDiffs}
             \/ olds \in SingleFileDiffs /\ newDiff = oldDiff
             \/ olds \in UniformDiffs /\ newDiff \in {Reader(news) : news \in FullDiffs}
    /\ IdleInterDiff
    /\ IdlePath

\* the error InterDiff returns for a diff without FileDiffs
EmptyDiffFile == [out |-> << >>, err |-> "ErrEmptyDiffFile"]

\* ParseOld without the check for an empty oldDiff
ParseOld_NoCheck ==
    /\ pc = "start"
    /\ oldFileDiffs' = ReadAllFiles(oldDiff)
    /\ pc' = "old parsed"
    /\ UNCHANGED <<newFileDiffs, oldI, newJ, resultFiles, workers, pending, result,
                   fileVars, pathVars>>

\* InterDiff reads oldDiff and checks that it is not empty
ParseOld ==
    /\ pc = "start"
    /\ oldFileDiffs' = ReadAllFiles(oldDiff)
    /\ IF Len(ReadAllFiles(oldDiff)) = 0
       THEN result' = EmptyDiffFile /\ pc' = "done"
       ELSE UNCHANGED result /\ pc' = "old parsed"
    /\ UNCHANGED <<newFileDiffs, oldI, newJ, resultFiles, workers, pending, fileVars, pathVars>>

\* InterDiff reads newDiff, checks that it is not empty and sorts both lists
ParseNew ==
    /\ pc = "old parsed"
    /\ IF Len(ReadAllFiles(newDiff)) = 0
       THEN /\ newFileDiffs' = ReadAllFiles(newDiff)
            /\ result' = EmptyDiffFile
            /\ pc' = "done"
            /\ UNCHANGED oldFileDiffs
       ELSE /\ oldFileDiffs' = sortStable(oldFileDiffs, << >>)
            /\ newFileDiffs' = sortStable(ReadAllFiles(newDiff), << >>)
            /\ pc' = "loop"
            /\ UNCHANGED result
    /\ UNCHANGED <<oldI, newJ, resultFiles, workers, pending, fileVars, pathVars>>

\* the driver performs the effect of one iteration; a map insertion is begun
\* here and ended by EndInsert
Perform(eff) ==
    /\ oldI' = eff.i
    /\ newJ' = eff.j
    /\ oldFileDiffs' = eff.olds
    /\ pending' = eff.write
    /\ workers' = IF eff.spawn THEN Append(workers, Worker(oldI, newJ)) ELSE workers
    /\ pc' = IF eff.write # None THEN "writing" ELSE "loop"

\* one iteration of the loops over the files
Iterate ==
    /\ pc = "loop"
    /\ oldI < Len(oldFileDiffs) \/ newJ < Len(newFileDiffs)
    /\ Perform(driverStep(oldFileDiffs, newFileDiffs, oldI, newJ))
    /\ UNCHANGED <<newFileDiffs, resultFiles, result, fileVars, pathVars>>

\* the driver's map insertion ends
EndInsert ==
    /\ pc = "writing"
    /\ resultFiles' = MapInsert(resultFiles, pending.key, pending.value)
    /\ pending' = None
    /\ pc' = "loop"
    /\ UNCHANGED <<oldFileDiffs, newFileDiffs, oldI, newJ, workers, result, fileVars, pathVars>>

\* the state of worker w after interFileDiff returned f
merged(w, f) ==
    IF f.err = "nil"
    THEN [w EXCEPT !.at = "printed", !.value = PrintFileDiff(f.fd)]
    ELSE [w EXCEPT !.at = "done", !.err = f.err]

\* a worker runs interFileDiff and PrintFileDiff; a panic in it ends the
\* program, a loop that does not end keeps the worker running for ever
Merge(w) ==
    /\ pc \in {"loop", "writing", "wait"}
    /\ workers[w].at = "started"
    /\ workers' = [workers EXCEPT ![w] =
                      merged(@, interFileDiff(oldFileDiffs[@.i + 1], newFileDiffs[@.j + 1]))]
    /\ pc' = IF workers'[w].err = "panic" THEN "crashed" ELSE pc
    /\ UNCHANGED <<oldFileDiffs, newFileDiffs, oldI, newJ, resultFiles, pending,
                   result, fileVars, pathVars>>

\* a worker locks its own mutex, which no one else holds, and begins its map
\* insertion
BeginInsert(w) ==
    /\ pc \in {"loop", "writing", "wait"}
    /\ workers[w].at = "printed"
    /\ workers' = [workers EXCEPT ![w].at = "writing"]
    /\ UNCHANGED <<pc, oldFileDiffs, newFileDiffs, oldI, newJ, resultFiles, pending,
                   result, fileVars, pathVars>>

\* a worker's map insertion ends; it unlocks its mutex and returns
WorkerEndInsert(w) ==
    /\ pc \in {"loop", "writing", "wait"}
    /\ workers[w].at = "writing"
    /\ resultFiles' = MapInsert(resultFiles,
                                oldFileDiffs[workers[w].i + 1].OrigName,
                                workers[w].value)
    /\ workers' = [workers EXCEPT ![w].at = "done"]
    /\ UNCHANGED <<pc, oldFileDiffs, newFileDiffs, oldI, newJ, pending, result, fileVars, pathVars>>

\* two map insertions at the same time: the Go runtime may stop the program
\* with "fatal error: concurrent map writes"
ConcurrentMapWrites ==
    /\ pc \in {"loop", "writing", "wait"}
    /\ Writers >= 2
    /\ pc' = "crashed"
    /\ UNCHANGED <<fileVars, interDiffVars, pathVars>>

\* the loops are over: the driver calls eg.Wait
Wait ==
    /\ pc = "loop"
    /\ oldI >= Len(oldFileDiffs) /\ newJ >= Len(newFileDiffs)
    /\ pc' = "wait"
    /\ UNCHANGED <<fileVars, interDiffVars, pathVars>>

\* eg.Wait returns when every worker has returned; the driver collects the
\* map in the order of the file names
Collect ==
    /\ pc = "wait"
    /\ \A w \in 1..Len(workers) : workers[w].at = "done"
    /\ result' =
         IF \E w \in 1..Len(workers) : workers[w].err # "nil"
         THEN [out |-> << >>,
               err |-> workers[CHOOSE w \in 1..Len(workers) : workers[w].err # "nil"].err]
         ELSE [out |-> ConcatInOrder(resultFiles, 1), err |-> "nil"]
    /\ pc' = "done"
    /\ UNCHANGED <<oldFileDiffs, newFileDiffs, oldI, newJ, resultFiles, workers,
                   pending, fileVars, pathVars>>

NextInterDiff ==
    \/ ParseOld
    \/ ParseNew
    \/ Iterate
    \/ EndInsert
    \/ \E w \in 1..Len(workers) : Merge(w)
    \/ \E w \in 1..Len(workers) : BeginInsert(w)
    \/ \E w \in 1..Len(workers) : WorkerEndInsert(w)
    \/ ConcurrentMapWrites
    \/ Wait
    \/ Collect

SpecInterDiff == InitInterDiff /\ [][NextInterDiff]_vars

-----------------------------------------------------------------------------
(* MixedModePath and the mixed command.  A path is the sequence of its       *)
(* elements, the empty path "" is << >>; every source file holds the base    *)
(* text.                                                                     *)

MaxTree == 2   \* files under one source directory

TreeNames == SubSeq(AllNames, 1, MaxTree)

\* filepath.Dir and filepath.Base: both give "." for the empty path
Dir(path) == IF path = << >> THEN <<".">> ELSE SubSeq(path, 1, Len(path) - 1)
Base(path) == IF path = << >> THEN <<".">> ELSE <<path[Len(path)]>>

\* strings.TrimPrefix
TrimPrefix(path, prefix) ==
    IF Len(path) >= Len(prefix) /\ SubSeq(path, 1, Len(prefix)) = prefix
    THEN SubSeq(path, Len(prefix) + 1, Len(path))
    ELSE path

\* the string "Only in <dir>: <base>\n"
OnlyInLine(dir, base) == OnlyIn(<<dir, base>>)

\* the content of the file at path
FileContent(path) == BaseText

\* the result of mixedModeFilePath: out is the returned string, the sequence
\* of its pieces, opened the files it has opened
FilePathResult(out, err, opened) == [out |-> out, err |-> err, opened |-> opened]

\* mixedModeFilePath after the os.Open calls: r is what mixedMode returned
filePathPrinted(oldSourcePath, newSourcePath, oldFileDiff, newFileDiff, r) ==
    IF r.err # "nil"
    THEN FilePathResult(<< >>, r.err, {oldSourcePath, newSourcePath})
    ELSE FilePathResult(
             <<PrintFileDiff([r.fd EXCEPT
                 !.OrigName = IF oldFileDiff = NilFileDiff THEN oldSourcePath ELSE @,
                 !.NewName = IF newFileDiff = NilFileDiff THEN newSourcePath ELSE @])>>,
             "nil", {oldSourcePath, newSourcePath})

\* unreadable: the paths on which os.Open fails
mixedModeFilePath(oldSourcePath, newSourcePath, oldFileDiff, newFileDiff, unreadable) ==
    IF /\ oldFileDiff # NilFileDiff /\ oldFileDiff.NewName = << >>
       /\ newFileDiff # NilFileDiff /\ newFileDiff.NewName = << >>
    THEN FilePathResult(<< >>, "nil", {})
    ELSE IF /\ oldFileDiff # NilFileDiff /\ oldFileDiff.OrigName # << >>
            /\ oldFileDiff.NewName = << >>
    THEN IF newFileDiff = NilFileDiff
         THEN FilePathResult(<<OnlyInLine(newSourcePath, Base(oldFileDiff.NewName))>>,
                             "nil", {})
         ELSE FilePathResult(<<OnlyInLine(Dir(newFileDiff.NewName),
                                          Base(newFileDiff.NewName))>>, "nil", {})
    ELSE IF /\ newFileDiff # NilFileDiff /\ newFileDiff.OrigName # << >>
            /\ newFileDiff.NewName = << >>
    THEN IF oldFileDiff = NilFileDiff
         THEN FilePathResult(<<OnlyInLine(oldSourcePath, Base(newFileDiff.NewName))>>,
                             "nil", {})
         ELSE FilePathResult(<<OnlyInLine(Dir(oldFileDiff.NewName),
                                          Base(oldFileDiff.NewName))>>, "nil", {})
    ELSE IF oldSourcePath \in unreadable
    THEN FilePathResult(<< >>, "open", {})
    ELSE IF newSourcePath \in unreadable
    THEN FilePathResult(<< >>, "open", {oldSourcePath})
    ELSE filePathPrinted(oldSourcePath, newSourcePath, oldFileDiff, newFileDiff,
                         mixedMode(FileContent(oldSourcePath), FileContent(newSourcePath),
                                   oldFileDiff, newFileDiff))

\* the switch of MixedModePath on the two os.Stat results
pathMode_FileFirst(oldIsDir, newIsDir) ==
    IF ~oldIsDir THEN "file" ELSE IF newIsDir THEN "dir" ELSE "error"

pathMode(oldIsDir, newIsDir) ==
    IF ~oldIsDir /\ ~newIsDir THEN "file"
    ELSE IF oldIsDir /\ newIsDir THEN "dir"
    ELSE "error"

\* the error MixedModePath returns for a file and a directory
NotBothSame == [out |-> << >>, err |-> "sources should be both dirs or files"]

\* getAllFileNamesInDir: filepath.Walk visits the files in lexical order
RECURSIVE walkFiles(_, _, _)
walkFiles(root, files, k) ==
    IF k > Len(AllNames) THEN << >>
    ELSE (IF AllNames[k] \in files THEN <<root \o <<AllNames[k]>>>> ELSE << >>)
         \o walkFiles(root, files, k + 1)

getAllFileNamesInDir(dir) == walkFiles(dir.path, dir.files, 1)

\* the map from OrigName to FileDiff built from the parsed FileDiffs
RECURSIVE diffMap(_, _)
diffMap(fds, map) ==
    IF fds = << >> THEN map
    ELSE diffMap(Tail(fds), MapInsert(map, fds[1].OrigName, fds[1]))

\* delete(map, key)
MapDelete(map, key) == [k \in DOMAIN map \ {key} |-> map[k]]

\* the orders in which a range loop may visit the keys of a map
KeyOrders(map) ==
    {order \in [1..Cardinality(DOMAIN map) -> DOMAIN map] :
        \A a, b \in 1..Cardinality(DOMAIN map) : a # b => order[a] # order[b]}

\* the FileDiffs a diff may hold for the file at path: the file is changed by
\* a hunk that applies, changed by a hunk that does not apply, or deleted
PathEntries(path) ==
    { [OrigName |-> path, NewName |-> path,
       Hunks |-> <<MkHunk(1, 1, << <<"-">> \o BaseLine(1) >>)>>],
      [OrigName |-> path, NewName |-> path,
       Hunks |-> <<MkHunk(1, 1, << <<"-", "z">> >>)>>],
      [OrigName |-> path, NewName |-> << >>, Hunks |-> << >>] }

\* the diffs over the files of TreeNames under root, from the k-th name on:
\* each file may be named or not, whether it is in the directory or not
RECURSIVE TreeDiffs(_, _)
TreeDiffs(root, k) ==
    IF k > Len(TreeNames) THEN {<< >>}
    ELSE LET rest == TreeDiffs(root, k + 1)
         IN  rest \cup UNION { { <<e>> \o r : r \in rest }
                               : e \in PathEntries(root \o <<TreeNames[k]>>) }

\* the diffs of one file
OneFileDiffs(root) ==
    UNION { { <<e>> : e \in PathEntries(root \o <<TreeNames[k]>>) } : k \in 1..Len(TreeNames) }

OldRoot == <<"old">>
NewRoot == <<"new">>

Directory(root, files) == [kind |-> "dir", path |-> root, files |-> files]
RegularFile(root) == [kind |-> "file", path |-> root \o <<TreeNames[1]>>, files |-> {}]
Missing(root) == [kind |-> "missing", path |-> root, files |-> {}]

Directories(root) ==
    {Directory(root, files) : files \in SUBSET {TreeNames[k] : k \in 1..Len(TreeNames)}}

InitPath ==
    /\ pc = "start"
    /\ source = EmptyString /\ newSource = EmptyString
    /\ patched = None /\ fileDiff = None
    /\ IdleInterDiff
    /\ oldFileNames = << >> /\ newFileNames = << >>
    /\ currentOldDiff = NilFileDiff /\ currentNewDiff = NilFileDiff
    /\ openFiles = {}
    /\ \E old \in Directories(OldRoot) \cup {RegularFile(OldRoot), Missing(OldRoot)},
          new \in Directories(NewRoot) \cup {RegularFile(NewRoot), Missing(NewRoot)},
          unreadable \in {{}, {NewRoot \o <<TreeNames[1]>>}} :
          /\ fileSystem = [old |-> old, new |-> new, unreadable |-> unreadable]
          /\ IF old.kind = "dir" /\ new.kind = "dir"
             THEN /\ oldDiff \in {Reader(fds) : fds \in TreeDiffs(OldRoot, 1)}
                  /\ newDiff \in {Reader(fds) : fds \in TreeDiffs(NewRoot, 1)}
             ELSE /\ oldDiff \in {Reader(fds) : fds \in OneFileDiffs(OldRoot)}
                  /\ newDiff \in {Reader(fds) : fds \in OneFileDiffs(NewRoot)}

\* the handles of the two diff files the command opens
OldDiffFile == <<"olddiff">>
NewDiffFile == <<"newdiff">>

\* mixedCmd.Execute up to the call of MixedModePath: the two diff files are
\* opened, and their Close is deferred
ExecuteOpen ==
    /\ pc = "start"
    /\ openFiles' = openFiles \cup {OldDiffFile, NewDiffFile}
    /\ pc' = "opened"
    /\ UNCHANGED <<fileVars, interDiffVars, fileSystem, oldFileNames, newFileNames,
                   currentOldDiff, currentNewDiff>>

\* MixedModePath: the two os.Stat calls and the switch on their results
StatSources ==
    /\ pc = "opened"
    /\ IF fileSystem.old.kind = "missing" \/ fileSystem.new.kind = "missing"
       THEN result' = [out |-> << >>, err |-> "stat"] /\ pc' = "returned"
       ELSE IF pathMode(fileSystem.old.kind = "dir", fileSystem.new.kind = "dir") = "error"
       THEN result' = NotBothSame /\ pc' = "returned"
       ELSE /\ UNCHANGED result
            /\ pc' = pathMode(fileSystem.old.kind = "dir", fileSystem.new.kind = "dir")
    /\ UNCHANGED <<fileVars, oldFileDiffs, newFileDiffs, oldI, newJ, resultFiles,
                   workers, pending, pathVars>>

\* diff.NewFileDiffReader(r).Read(): the first FileDiff of the diff
ReadFileDiff(r) == r.files[1]

\* the return of MixedModePath in file mode, f the result of mixedModeFilePath
fileModeReturn(f) == [out |-> f.out, err |-> f.err]

\* MixedModePath, both sources are files: the two diffs are read, their names
\* compared with the paths, and mixedModeFilePath is called
FileMode ==
    /\ pc = "file"
    /\ IF \/ fileSystem.old.path # ReadFileDiff(oldDiff).OrigName
          \/ fileSystem.new.path # ReadFileDiff(newDiff).OrigName
       THEN /\ result' = [out |-> << >>, err |-> "filenames mismatch"]
            /\ UNCHANGED openFiles
       ELSE /\ result' = fileModeReturn(
                   mixedModeFilePath(fileSystem.old.path, fileSystem.new.path,
                                     ReadFileDiff(oldDiff), ReadFileDiff(newDiff),
                                     fileSystem.unreadable))
            /\ openFiles' = openFiles \cup
                   mixedModeFilePath(fileSystem.old.path, fileSystem.new.path,
                                     ReadFileDiff(oldDiff), ReadFileDiff(newDiff),
                                     fileSystem.unreadable).opened
    /\ pc' = "returned"
    /\ UNCHANGED <<fileVars, oldFileDiffs, newFileDiffs, oldI, newJ, resultFiles,
                   workers, pending, fileSystem, oldFileNames, newFileNames,
                   currentOldDiff, currentNewDiff>>

\* mixedModeDirPath up to its first loop: the two walks and the two maps
DirStart ==
    /\ pc = "dir"
    /\ oldFileNames' = getAllFileNamesInDir(fileSystem.old)
    /\ newFileNames' = getAllFileNamesInDir(fileSystem.new)
    /\ oldFileDiffs' = diffMap(ReadAllFiles(oldDiff), << >>)
    /\ newFileDiffs' = diffMap(ReadAllFiles(newDiff), << >>)
    /\ oldI' = 0 /\ newJ' = 0
    /\ result' = [out |-> << >>, err |-> "nil"]
    /\ pc' = "dir loop"
    /\ UNCHANGED <<fileVars, resultFiles, workers, pending, fileSystem,
                   currentOldDiff, currentNewDiff, openFiles>>

\* the FileDiff the first loop works with for the file at path: the one it
\* holds already, or the one it takes out of the map
fetched(map, path, current) ==
    IF path \in DOMAIN map /\ current = NilFileDiff THEN map[path] ELSE current

afterFetch(map, path, current) ==
    IF path \in DOMAIN map /\ current = NilFileDiff THEN MapDelete(map, path) ELSE map

\* the "Only in" line of the first loop for a file that is in one directory only
onlyInOne(path, current) ==
    IF current # NilFileDiff
    THEN IF current.NewName # << >>
         THEN <<OnlyInLine(Dir(current.NewName), Base(current.NewName))>>
         ELSE << >>
    ELSE <<OnlyInLine(Dir(path), Base(path))>>

\* the case of the first loop in which both directories hold the file: f is
\* the result of mixedModeFilePath
dirSameFile(f) ==
    /\ openFiles' = openFiles \cup f.opened
    /\ IF f.err # "nil"
       THEN /\ result' = [out |-> << >>, err |-> f.err]
            /\ pc' = "returned"
            /\ UNCHANGED <<oldI, newJ>>
       ELSE /\ result' = [result EXCEPT !.out = @ \o f.out]
            /\ oldI' = oldI + 1 /\ newJ' = newJ + 1
            /\ UNCHANGED pc
    /\ currentOldDiff' = NilFileDiff
    /\ currentNewDiff' = NilFileDiff

\* one iteration of the first loop of mixedModeDirPath; old and new are the
\* FileDiffs after the two look-ups in the maps
dirSwitch(oldPath, newPath, old, new) ==
    IF TrimPrefix(oldPath, fileSystem.old.path) = TrimPrefix(newPath, fileSystem.new.path)
    THEN dirSameFile(mixedModeFilePath(oldPath, newPath, old, new, fileSystem.unreadable))
    ELSE IF Rank(TrimPrefix(oldPath, fileSystem.old.path)[1])
            < Rank(TrimPrefix(newPath, fileSystem.new.path)[1])
    THEN /\ result' = [result EXCEPT !.out = @ \o onlyInOne(oldPath, old)]
         /\ oldI' = oldI + 1
         /\ currentOldDiff' = NilFileDiff
         /\ currentNewDiff' = new
         /\ UNCHANGED <<pc, newJ, openFiles>>
    ELSE /\ result' = [result EXCEPT !.out = @ \o onlyInOne(newPath, new)]
         /\ newJ' = newJ + 1
         /\ currentNewDiff' = NilFileDiff
         /\ currentOldDiff' = old
         /\ UNCHANGED <<pc, oldI, openFiles>>

DirIterate ==
    /\ pc = "dir loop"
    /\ oldI < Len(oldFileNames) /\ newJ < Len(newFileNames)
    /\ oldFileDiffs' = afterFetch(oldFileDiffs, oldFileNames[oldI + 1], currentOldDiff)
    /\ newFileDiffs' = afterFetch(newFileDiffs, newFileNames[newJ + 1], currentNewDiff)
    /\ dirSwitch(oldFileNames[oldI + 1], newFileNames[newJ + 1],
                 fetched(oldFileDiffs, oldFileNames[oldI + 1], currentOldDiff),
                 fetched(newFileDiffs, newFileNames[newJ + 1], currentNewDiff))
    /\ UNCHANGED <<fileVars, resultFiles, workers, pending, fileSystem,
                   oldFileNames, newFileNames>>

\* the "Only in" line of the second and third loop for the file at path
drainLine(map, path) ==
    IF path \in DOMAIN map /\ map[path].NewName = << >>
    THEN << >>
    ELSE <<OnlyInLine(Dir(path), Base(path))>>

\* one iteration of the loop over the old files that are left
DrainOld ==
    /\ pc = "dir loop"
    /\ ~(oldI < Len(oldFileNames) /\ newJ < Len(newFileNames))
    /\ oldI < Len(oldFileNames)
    /\ result' = [result EXCEPT !.out = @ \o drainLine(oldFileDiffs, oldFileNames[oldI + 1])]
    /\ oldFileDiffs' = MapDelete(oldFileDiffs, oldFileNames[oldI + 1])
    /\ oldI' = oldI + 1
    /\ UNCHANGED <<pc, fileVars, newFileDiffs, newJ, resultFiles, workers, pending,
                   pathVars>>

\* one iteration of the loop over the new files that are left
DrainNew ==
    /\ pc = "dir loop"
    /\ oldI >= Len(oldFileNames)
    /\ newJ < Len(newFileNames)
    /\ result' = [result EXCEPT !.out = @ \o drainLine(newFileDiffs, newFileNames[newJ + 1])]
    /\ newFileDiffs' = MapDelete(newFileDiffs, newFileNames[newJ + 1])
    /\ newJ' = newJ + 1
    /\ UNCHANGED <<pc, fileVars, oldFileDiffs, oldI, resultFiles, workers, pending,
                   pathVars>>

\* the lines of a range loop that visits the keys in the given order
rangeLines(order) ==
    [k \in 1..Len(order) |-> OnlyInLine(Dir(order[k]), Base(order[k]))]

\* the first range loop over oldFileDiffs
RangeOldFileDiffs ==
    /\ pc = "dir loop"
    /\ oldI >= Len(oldFileNames) /\ newJ >= Len(newFileNames)
    /\ \E order \in KeyOrders(oldFileDiffs) :
          result' = [result EXCEPT !.out = @ \o rangeLines(order)]
    /\ pc' = "dir range"
    /\ UNCHANGED <<fileVars, oldFileDiffs, newFileDiffs, oldI, newJ, resultFiles,
                   workers, pending, pathVars>>

\* the second range loop, over oldFileDiffs again, and the return
RangeOldFileDiffsAgain ==
    /\ pc = "dir range"
    /\ \E order \in KeyOrders(oldFileDiffs) :
          result' = [result EXCEPT !.out = @ \o rangeLines(order)]
    /\ pc' = "returned"
    /\ UNCHANGED <<fileVars, oldFileDiffs, newFileDiffs, oldI, newJ, resultFiles,
                   workers, pending, pathVars>>

\* mixedCmd.Execute returns: the deferred Close calls of the diff files run
ExecuteReturn ==
    /\ pc = "returned"
    /\ openFiles' = openFiles \ {OldDiffFile, NewDiffFile}
    /\ pc' = "exited"
    /\ UNCHANGED <<fileVars, interDiffVars, fileSystem, oldFileNames, newFileNames,
                   currentOldDiff, currentNewDiff>>

NextPath ==
    \/ ExecuteOpen
    \/ StatSources
    \/ FileMode
    \/ DirStart
    \/ DirIterate
    \/ DrainOld
    \/ DrainNew
    \/ RangeOldFileDiffs
    \/ RangeOldFileDiffsAgain
    \/ ExecuteReturn

SpecPath == InitPath /\ [][NextPath]_vars

-----------------------------------------------------------------------------
(* Properties *)

\* C1 (interdiff correctness): when oldDiff and newDiff both apply cleanly to
\* the base S, interFileDiff(oldDiff, newDiff) succeeds, and applying its
\* result to S+oldDiff succeeds and yields S+newDiff.
C1_InterdiffCorrect ==
    /\ (pc \in {"merged", "applied"}
        /\ patched.old.err = "nil" /\ patched.new.err = "nil")
       => fileDiff.err = "nil"
    /\ (pc = "applied" /\ patched.old.err = "nil" /\ patched.new.err = "nil")
       => (patched.inter.err = "nil" /\ patched.inter.out = patched.new.out)

\* The failing case of C1: S has three lines, oldDiff deletes line 1 and
\* newDiff deletes line 3; both apply to S, the interdiff does not apply to
\* S+oldDiff.
C1_FailingInput ==
    /\ pc = "applied"
    /\ patched.old.err = "nil" /\ patched.new.err = "nil"
    /\ patched.inter.err = "panic"
    /\ oldDiff.Hunks = <<MkHunk(1, 1, <<<<"-">> \o BaseLine(1)>>)>>
    /\ newDiff.Hunks = <<MkHunk(3, 3, <<<<"-">> \o BaseLine(3)>>)>>

\* every anchor line of every hunk of fd equals the line of text S at its place
AnchorPos(hunk, k) ==
    hunk.OrigStartLine
    + Cardinality({n \in 1..(k - 1) : IsAnchor(hunk.Body[n])})

ContextMatches(S, fd) ==
    \A h \in 1..Len(fd.Hunks) :
        \A k \in 1..Len(fd.Hunks[h].Body) :
            IsAnchor(fd.Hunks[h].Body[k]) =>
                /\ AnchorPos(fd.Hunks[h], k) \in 1..Len(S)
                /\ Tail(fd.Hunks[h].Body[k]) = S[AnchorPos(fd.Hunks[h], k)]

\* the lines a hunk body leaves in the new file
RECURSIVE NewSide(_)
NewSide(body) ==
    IF body = << >> THEN << >>
    ELSE IF HasPrefix(body[1], " ") \/ HasPrefix(body[1], "+")
         THEN <<Tail(body[1])>> \o NewSide(Tail(body))
         ELSE NewSide(Tail(body))

\* the patched text, read off the hunk headers: the lines before each hunk are
\* kept, the OrigLines lines of the hunk are replaced by its new side
RECURSIVE PatchedText(_, _, _)
PatchedText(S, hunks, from) ==
    IF hunks = << >> THEN SubSeq(S, from, Len(S))
    ELSE SubSeq(S, from, hunks[1].OrigStartLine - 1)
         \o NewSide(hunks[1].Body)
         \o PatchedText(S, Tail(hunks), hunks[1].OrigStartLine + hunks[1].OrigLines)

\* C4 (round trip of apply and revert): when the context of patch P matches
\* S, applying revert(P) to apply(S, P) succeeds and gives back S, modulo a
\* trailing newline.
C4_ApplyRevertRoundTrip ==
    (pc = "unapplied" /\ ContextMatches(source, oldDiff))
    => /\ patched.back.err = "nil"
       /\ TrimSuffixNL(patched.back.out) = TrimSuffixNL(source)

\* C5 (revert is an involution): revertedHunk(h) has one body line per body
\* line of h, each the revertedLine of it, with the orig and new coordinates
\* swapped; reverting twice gives back the coordinates and the body of h.
C5_RevertInvolution ==
    /\ pc \in {"reverted", "reverted twice", "unapplied"} =>
         \A h \in 1..Len(oldDiff.Hunks) :
            LET a == oldDiff.Hunks[h]
                b == fileDiff.Hunks[h]
            IN  /\ Len(b.Body) = Len(a.Body)
                /\ \A k \in 1..Len(a.Body) : b.Body[k] = revertedLine(a.Body[k])
                /\ b.OrigStartLine = a.NewStartLine /\ b.OrigLines = a.NewLines
                /\ b.NewStartLine = a.OrigStartLine /\ b.NewLines = a.OrigLines
    /\ pc = "reverted twice" =>
         \A h \in 1..Len(oldDiff.Hunks) :
            LET a == oldDiff.Hunks[h]
                c == newDiff.Hunks[h]
            IN  /\ c.OrigStartLine = a.OrigStartLine /\ c.OrigLines = a.OrigLines
                /\ c.NewStartLine = a.NewStartLine /\ c.NewLines = a.NewLines
                /\ c.Body = a.Body

\* C6 (symmetry): when A = oldDiff and B = newDiff apply cleanly to S,
\* interdiff(A, B) takes S+A to S+B and interdiff(B, A) takes S+B to S+A.
C6_Symmetry ==
    (pc = "symmetric" /\ patched.old.err = "nil" /\ patched.new.err = "nil")
    => /\ patched.inter.err = "nil" /\ patched.inter.out = patched.new.out
       /\ patched.back.err = "nil" /\ patched.back.out = patched.old.out

\* C9 (result hunks are ordered): the hunks of the FileDiff returned by
\* interFileDiff are strictly ordered by OrigStartLine and no two of them
\* overlap in orig-line coordinates.
C9_ResultHunksOrdered ==
    (pc = "merged" /\ fileDiff.err = "nil")
    => \A k \in 1..(Len(fileDiff.fd.Hunks) - 1) :
          LET a == fileDiff.fd.Hunks[k]
              b == fileDiff.fd.Hunks[k + 1]
          IN  /\ a.OrigStartLine < b.OrigStartLine
              /\ a.OrigStartLine + a.OrigLines <= b.OrigStartLine

\* C10 (applyDiff and ContentMismatch): when some " " or "-" line of the patch
\* differs from the source line at its place, applyDiff returns
\* ErrContentMismatch and the empty string; when every such line matches, it
\* returns the patched text and no error.
C10_ApplyMismatch ==
    pc = "patched" =>
        IF ContextMatches(source, oldDiff)
        THEN /\ patched.old.err = "nil"
             /\ patched.old.out = JoinText(PatchedText(source, oldDiff.Hunks, 1))
        ELSE /\ patched.old.err = "ErrContentMismatch"
             /\ patched.old.out = EmptyString

\* C10 witness: a patch was applied whose second hunk disagrees with the
\* source while its first hunk agrees and adds a line
C10_Witness ==
    /\ pc = "patched"
    /\ ~ContextMatches(source, oldDiff)
    /\ Len(oldDiff.Hunks) = 2
    /\ ContextMatches(source, MkFileDiff(<<oldDiff.Hunks[1]>>))
    /\ \E k \in 1..Len(oldDiff.Hunks[1].Body) : HasPrefix(oldDiff.Hunks[1].Body[k], "+")
    /\ patched.old = ApplyMismatch

\* C2 (mixed-mode correctness): when oldDiff applies to oldSource and newDiff
\* to newSource, mixedMode returns a FileDiff that applyDiff takes from the
\* old patched text to the new patched text, modulo a trailing newline.
C2_MixedCorrect ==
    /\ (pc \in {"mixed", "applied"} /\ patched.old.err = "nil" /\ patched.new.err = "nil")
       => fileDiff.err = "nil"
    /\ (pc = "applied" /\ patched.old.err = "nil" /\ patched.new.err = "nil")
       => /\ patched.inter.err = "nil"
          /\ TrimSuffixNL(patched.inter.out) = TrimSuffixNL(patched.new.out)

\* the result of mixedMode has more than one hunk and does not take the old
\* patched text to the new one
C2_FailingInput ==
    /\ pc = "applied"
    /\ Len(fileDiff.fd.Hunks) = 2
    /\ patched.inter.err = "ErrContentMismatch"

\* the first body line of the hunk is the line of the old text at
\* OrigStartLine, or of the new text at NewStartLine, or of both
StartsAtFirstLine(hunk, oldText, newText) ==
    LET first == SplitTrimmed(hunk.Body)[1]
    IN  /\ (HasPrefix(first, " ") \/ HasPrefix(first, "-")) =>
              /\ hunk.OrigStartLine \in 1..Len(oldText)
              /\ oldText[hunk.OrigStartLine] = Tail(first)
        /\ (HasPrefix(first, " ") \/ HasPrefix(first, "+")) =>
              /\ hunk.NewStartLine \in 1..Len(newText)
              /\ newText[hunk.NewStartLine] = Tail(first)

\* C7 (hunk line counts in mixed mode): every hunk of the FileDiff built by
\* convertChunksIntoFileDiff has OrigLines equal to the number of its " " and
\* "-" body lines, NewLines equal to the number of its " " and "+" body
\* lines, and start lines that are the line numbers of its first body line.
C7_HunkLineCounts ==
    (pc \in {"mixed", "applied"} /\ fileDiff.err = "nil") =>
        \A h \in 1..Len(fileDiff.fd.Hunks) :
            /\ fileDiff.fd.Hunks[h].OrigLines
                  = OrigCount(SplitTrimmed(fileDiff.fd.Hunks[h].Body))
            /\ fileDiff.fd.Hunks[h].NewLines
                  = NewCount(SplitTrimmed(fileDiff.fd.Hunks[h].Body))
            /\ StartsAtFirstLine(fileDiff.fd.Hunks[h],
                                 TrimSuffixNL(patched.old.out),
                                 TrimSuffixNL(patched.new.out))

\* the number of context lines at the front of a hunk body
RECURSIVE LeadingContext(_)
LeadingContext(body) ==
    IF body # << >> /\ HasPrefix(body[1], " ")
    THEN 1 + LeadingContext(Tail(body))
    ELSE 0

\* the number of context lines at the end of a hunk body
RECURSIVE TrailingContext(_)
TrailingContext(body) ==
    IF body # << >> /\ HasPrefix(body[Len(body)], " ")
    THEN 1 + TrailingContext(SubSeq(body, 1, Len(body) - 1))
    ELSE 0

\* C8 (context floor): every hunk built by convertChunksIntoFileDiff has at
\* most 2 context lines before its first changed line and at most 2 after
\* its last changed line.
C8_ContextFloor ==
    (pc \in {"mixed", "applied"} /\ fileDiff.err = "nil") =>
        \A h \in 1..Len(fileDiff.fd.Hunks) :
            /\ LeadingContext(SplitTrimmed(fileDiff.fd.Hunks[h].Body)) <= 2
            /\ TrailingContext(SplitTrimmed(fileDiff.fd.Hunks[h].Body)) <= 2


\* C3 (idempotence): InterDiff(P, P) returns no error and an output with no
\* hunk and no "Only in" line, for every patch P that names a file.
C3_Idempotence ==
    (oldDiff = newDiff /\ Len(ReadAllFiles(oldDiff)) > 0) =>
        /\ pc # "crashed"
        /\ pc = "done" =>
              /\ result.err = "nil"
              /\ \A k \in 1..Len(result.out) :
                    /\ "onlyIn" \notin DOMAIN result.out[k]
                    /\ result.out[k].Hunks = << >>

\* the failing case of C3: P changes two files, and the two workers insert
\* into the map at the same time
C3_FailingInput ==
    /\ oldDiff = newDiff
    /\ Len(workers) = 2
    /\ pc = "crashed"

\* a hunk of fd starts after the line that follows the last line of S, or one
\* of its " " or "-" lines stands at a place after the last line of S
RunsPastEnd(S, fd) ==
    \E h \in 1..Len(fd.Hunks) :
        \/ fd.Hunks[h].OrigStartLine - 1 > Len(S)
        \/ \E k \in 1..Len(fd.Hunks[h].Body) :
              /\ IsAnchor(fd.Hunks[h].Body[k])
              /\ AnchorPos(fd.Hunks[h], k) > Len(S)

\* C11 (hunk past the end of the source): applyDiff of a patch with a hunk
\* that runs past the last line of the source returns ErrContentMismatch and
\* the empty string, and never indexes the source out of bounds.
C11_PastEndIsMismatch ==
    (pc = "patched" /\ RunsPastEnd(source, oldDiff)) => patched.old = ApplyMismatch

\* the failing case of C11: the only hunk deletes the line after the last line
\* of the source, and applyDiff panics
C11_FailingInput ==
    /\ pc = "patched"
    /\ oldDiff.Hunks = <<MkHunk(MaxSrc + 1, MaxSrc + 1,
                                <<<<"-">> \o BaseLine(MaxSrc + 1)>>)>>
    /\ patched.old = ApplyPanic

\* the two FileDiffs have a " " or "-" line at the same line of the original,
\* and the two lines differ in their content
AnchorsDisagree(old, new) ==
    \E h \in 1..Len(old.Hunks), g \in 1..Len(new.Hunks) :
        \E k \in 1..Len(old.Hunks[h].Body), n \in 1..Len(new.Hunks[g].Body) :
            /\ IsAnchor(old.Hunks[h].Body[k]) /\ IsAnchor(new.Hunks[g].Body[n])
            /\ AnchorPos(old.Hunks[h], k) = AnchorPos(new.Hunks[g], n)
            /\ Tail(old.Hunks[h].Body[k]) # Tail(new.Hunks[g].Body[n])

\* the error InterDiff returns when the merge of a file fails
MismatchReturned == [out |-> << >>, err |-> "ErrContentMismatch"]

\* C12 (content mismatch in the merge): when the two diffs of a file have
\* anchor lines (" " or "-") at the same original line with different
\* payloads, the merge of the file fails with ErrContentMismatch, and InterDiff
\* returns that error and the empty string, with no output for any file.
C12_MismatchFailsInterDiff ==
    \A w \in 1..Len(workers) :
        (/\ workers[w].at # "started"
         /\ AnchorsDisagree(oldFileDiffs[workers[w].i + 1],
                            newFileDiffs[workers[w].j + 1]))
        => /\ workers[w].err = "ErrContentMismatch"
           /\ workers[w].value = None
           /\ pc # "crashed"
           /\ pc = "done" => result = MismatchReturned

\* the failing case of C12: the merge of the first file has failed with
\* ErrContentMismatch, and the workers of two other files insert into the map
\* at the same time
C12_FailingInput ==
    /\ Len(workers) = 3
    /\ workers[1].err = "ErrContentMismatch"
    /\ workers[2].at = "writing" /\ workers[3].at = "writing"
    /\ pc = "crashed"

\* C13 (empty diff): InterDiff returns ErrEmptyDiffFile and the empty string
\* when oldDiff or newDiff holds no FileDiff, and when oldDiff holds none it
\* returns before newDiff is read.
C13_EmptyDiffFile ==
    /\ (Len(ReadAllFiles(oldDiff)) = 0 \/ Len(ReadAllFiles(newDiff)) = 0)
       => /\ pc \in {"start", "old parsed", "done"}
          /\ pc = "done" => result = EmptyDiffFile
    /\ Len(ReadAllFiles(oldDiff)) = 0
       => /\ pc \in {"start", "done"}
          /\ newFileDiffs = << >>

\* C13 witness: InterDiff has returned for an empty oldDiff and a newDiff that
\* names a file, and newDiff was not read
C13_Witness ==
    /\ pc = "done"
    /\ Len(ReadAllFiles(oldDiff)) = 0
    /\ Len(ReadAllFiles(newDiff)) > 0
    /\ newFileDiffs = << >>
    /\ result = EmptyDiffFile

\* The run of InterDiff in which every goroutine runs to its end as soon as
\* it is started: the map and the first error after the files from i and j.
RECURSIVE sequentialRun(_, _, _, _, _, _)

sequentialWrite(map, write) ==
    IF write = None THEN map ELSE MapInsert(map, write.key, write.value)

sequentialWorker(olds, news, eff, map, err, key, f) ==
    sequentialRun(eff.olds, news, eff.i, eff.j,
                  IF f.err = "nil" THEN MapInsert(map, key, PrintFileDiff(f.fd)) ELSE map,
                  IF err = "nil" THEN f.err ELSE err)

sequentialStep(olds, news, i, j, map, err, eff) ==
    IF eff.spawn
    THEN sequentialWorker(olds, news, eff, map, err, olds[i + 1].OrigName,
                          interFileDiff(olds[i + 1], news[j + 1]))
    ELSE sequentialRun(eff.olds, news, eff.i, eff.j, sequentialWrite(map, eff.write), err)

sequentialRun(olds, news, i, j, map, err) ==
    IF i < Len(olds) \/ j < Len(news)
    THEN sequentialStep(olds, news, i, j, map, err, driverStep(olds, news, i, j))
    ELSE IF err # "nil" THEN [out |-> << >>, err |-> err]
    ELSE [out |-> ConcatInOrder(map, 1), err |-> "nil"]

SequentialResult ==
    sequentialRun(sortStable(ReadAllFiles(oldDiff), << >>),
                  sortStable(ReadAllFiles(newDiff), << >>), 0, 0, << >>, "nil")

\* C14 (deterministic output): for given oldDiff and newDiff InterDiff
\* returns the same string under every scheduling of its goroutines, the
\* results of the files in ascending order of their names, and it reads the
\* map only after every goroutine has returned.
C14_Deterministic ==
    (Len(ReadAllFiles(oldDiff)) > 0 /\ Len(ReadAllFiles(newDiff)) > 0)
    => /\ pc # "crashed"
       /\ pc = "done" =>
             /\ \A w \in 1..Len(workers) : workers[w].at = "done"
             /\ result = SequentialResult

\* the failing case of C14: the diffs change two files, and the run in which
\* both goroutines insert into the map at the same time ends in a crash
C14_FailingInput ==
    /\ Len(ReadAllFiles(oldDiff)) = 2
    /\ Len(workers) = 2
    /\ workers[1].at = "writing" /\ workers[2].at = "writing"
    /\ pc = "crashed"

\* C15 (one mutex for the map): no two insertions into resultFiles, by a
\* goroutine or by the driver, are in progress at the same time.
C15_MutualExclusion == Writers <= 1

\* the failing case of C15: a goroutine is inserting into the map while the
\* driver, which takes no lock, is inserting too
C15_FailingInput ==
    /\ pc = "writing"
    /\ \E w \in 1..Len(workers) : workers[w].at = "writing"

\* C16 (file handles are closed): when the mixed command returns, every file
\* that the command or MixedModePath has opened, the two diff files and the
\* source files, has been closed.
C16_HandlesClosed == pc = "exited" => openFiles = {}

\* the failing case of C16: both sources are files, MixedModePath has returned
\* a diff without error, and the two source files are still open
C16_FailingInput ==
    /\ pc = "exited"
    /\ result.err = "nil"
    /\ openFiles = {fileSystem.old.path, fileSystem.new.path}

\* one source is a file and the other a directory
FileAndDir ==
    \/ fileSystem.old.kind = "file" /\ fileSystem.new.kind = "dir"
    \/ fileSystem.old.kind = "dir" /\ fileSystem.new.kind = "file"

CountLines(out, line) == Cardinality({k \in 1..Len(out) : out[k] = line})

\* the diff records the file at path as deleted
RecordsDeleted(r, path) ==
    \E k \in 1..Len(ReadAllFiles(r)) :
        /\ ReadAllFiles(r)[k].OrigName = path
        /\ ReadAllFiles(r)[k].NewName = << >>

\* mixedModeDirPath has returned a result
DirReturned ==
    /\ pc \in {"returned", "exited"}
    /\ fileSystem.old.kind = "dir" /\ fileSystem.new.kind = "dir"
    /\ result.err = "nil"

\* the lines for the files under dir that are not under other
OnlyInOneTree(dir, other, r) ==
    \A name \in dir.files \ other.files :
        CountLines(result.out, OnlyInLine(dir.path, <<name>>))
            = IF RecordsDeleted(r, dir.path \o <<name>>) THEN 0 ELSE 1

\* C18 (files in one tree only): for every path that is in only one of the two
\* source trees mixedModeDirPath emits exactly one "Only in" line, and none
\* when a FileDiff records the file as deleted.
C18_OnlyInOneTree ==
    DirReturned => /\ OnlyInOneTree(fileSystem.old, fileSystem.new, oldDiff)
                   /\ OnlyInOneTree(fileSystem.new, fileSystem.old, newDiff)

\* the failing case of C18: the old directory holds a only, the new one b
\* only, newDiff records b as deleted, and a line for b is emitted
C18_FailingInput ==
    /\ DirReturned
    /\ fileSystem.old.files = {TreeNames[1]} /\ fileSystem.new.files = {TreeNames[2]}
    /\ RecordsDeleted(newDiff, NewRoot \o <<TreeNames[2]>>)
    /\ CountLines(result.out, OnlyInLine(NewRoot, <<TreeNames[2]>>)) = 1

\* the FileDiffs of r, in the order of their names, whose path is no file of dir
RECURSIVE unmatched(_, _, _)
unmatched(r, dir, k) ==
    IF k > Len(AllNames) THEN << >>
    ELSE (IF /\ AllNames[k] \notin dir.files
             /\ \E n \in 1..Len(ReadAllFiles(r)) :
                   ReadAllFiles(r)[n].OrigName = dir.path \o <<AllNames[k]>>
          THEN <<dir.path \o <<AllNames[k]>>>> ELSE << >>)
         \o unmatched(r, dir, k + 1)

\* the pieces of the output that are lines for the paths of the sequence
linesFor(out, paths) ==
    SelectSeq(out, LAMBDA piece :
        \E k \in 1..Len(paths) : piece = OnlyInLine(Dir(paths[k]), Base(paths[k])))

\* C19 (FileDiffs without a file): every FileDiff of oldDiff or newDiff whose
\* path is no file of its source tree causes exactly one "Only in" line, and
\* these lines come in the same order on every run.
C19_DiffWithoutFile ==
    DirReturned =>
        linesFor(result.out, unmatched(oldDiff, fileSystem.old, 1)
                             \o unmatched(newDiff, fileSystem.new, 1))
        = rangeLines(unmatched(oldDiff, fileSystem.old, 1)
                     \o unmatched(newDiff, fileSystem.new, 1))

\* the failing case of C19: both directories are empty, each diff names the
\* file a, and the output is the line for the old a twice
C19_FailingInput ==
    /\ DirReturned
    /\ fileSystem.old.files = {} /\ fileSystem.new.files = {}
    /\ Len(ReadAllFiles(oldDiff)) = 1 /\ Len(ReadAllFiles(newDiff)) = 1
    /\ result.out = <<OnlyInLine(OldRoot, Base(ReadAllFiles(oldDiff)[1].OrigName)),
                      OnlyInLine(OldRoot, Base(ReadAllFiles(oldDiff)[1].OrigName))>>

\* both sides have a hunk open and both current lines are " " or "-" lines
BothAtAnchor(st) ==
    /\ st.i >= 0 /\ st.j >= 0
    /\ IsAnchor(st.oldHunkBody[st.i + 1])
    /\ IsAnchor(st.newHunkBody[st.j + 1])

\* the line the merge emits for a pair of anchor lines with the same content
AnchorEmitted(oldLine, newLine) ==
    IF HasPrefix(oldLine, " ") /\ HasPrefix(newLine, " ") THEN <<<<" ">> \o Tail(oldLine)>>
    ELSE IF HasPrefix(oldLine, "-") /\ HasPrefix(newLine, " ") THEN <<<<"+">> \o Tail(oldLine)>>
    ELSE IF HasPrefix(oldLine, " ") /\ HasPrefix(newLine, "-") THEN <<<<"-">> \o Tail(oldLine)>>
    ELSE << >>

\* C20 (anchor emission): with both sides open at anchor lines of the same
\* content x, the merge emits " x" for (" ", " "), "+x" for ("-", " "), "-x"
\* for (" ", "-") and nothing for ("-", "-"), and in every case cur_orig and
\* both line cursors advance by exactly one.
C20_AnchorEmission ==
    (/\ pc = "merging"
     /\ fileDiff.entered # None
     /\ BothAtAnchor(fileDiff.entered)
     /\ Tail(fileDiff.entered.oldHunkBody[fileDiff.entered.i + 1])
        = Tail(fileDiff.entered.newHunkBody[fileDiff.entered.j + 1]))
    => /\ fileDiff.switched.err = "nil"
       /\ fileDiff.switched.newBody
          = fileDiff.entered.newBody
            \o AnchorEmitted(fileDiff.entered.oldHunkBody[fileDiff.entered.i + 1],
                             fileDiff.entered.newHunkBody[fileDiff.entered.j + 1])
       /\ fileDiff.switched.currentOrgI = fileDiff.entered.currentOrgI + 1
       /\ fileDiff.switched.i = fileDiff.entered.i + 1
       /\ fileDiff.switched.j = fileDiff.entered.j + 1

\* C20 witness: an iteration of the merge loop has handled a "-" line of
\* oldDiff and a " " line of newDiff with the same content, after lines
\* emitted before
C20_Witness ==
    /\ pc = "merging"
    /\ fileDiff.entered # None
    /\ BothAtAnchor(fileDiff.entered)
    /\ HasPrefix(fileDiff.entered.oldHunkBody[fileDiff.entered.i + 1], "-")
    /\ HasPrefix(fileDiff.entered.newHunkBody[fileDiff.entered.j + 1], " ")
    /\ fileDiff.entered.newBody # << >>
    /\ fileDiff.switched.newBody
       = Append(fileDiff.entered.newBody,
                <<"+">> \o Tail(fileDiff.entered.oldHunkBody[fileDiff.entered.i + 1]))

\* the lines a hunk body takes from the old file
RECURSIVE OldSide(_)
OldSide(body) ==
    IF body = << >> THEN << >>
    ELSE IF HasPrefix(body[1], " ") \/ HasPrefix(body[1], "-")
         THEN <<Tail(body[1])>> \o OldSide(Tail(body))
         ELSE OldSide(Tail(body))

\* the contents of the maximal run of "+" lines of body from 0-based index i
AddedRun(body, i) ==
    [n \in 1..(addedRunEnd(body, i) - i) |-> Tail(body[i + n])]

\* both sides have a hunk open and the current line of either is a "+" line
EitherAtAdded(st) ==
    /\ st.i >= 0 /\ st.j >= 0
    /\ \/ HasPrefix(st.oldHunkBody[st.i + 1], "+")
       \/ HasPrefix(st.newHunkBody[st.j + 1], "+")

\* the lines the switch of one iteration appended to newBody
Emitted(f) ==
    SubSeq(f.switched.newBody, Len(f.entered.newBody) + 1, Len(f.switched.newBody))

\* C21 (added-line reconciliation): with both sides open and either cursor at
\* a "+" line, both maximal runs of "+" lines are consumed and replaced by
\* their line-diff: the emitted " " and "-" lines are the run of oldDiff, the
\* emitted " " and "+" lines are the run of newDiff (lines added by both are
\* context), and cur_orig stays where it is.
C21_AddedReconciled ==
    (/\ pc = "merging"
     /\ fileDiff.entered # None
     /\ EitherAtAdded(fileDiff.entered))
    => /\ fileDiff.switched.err = "nil"
       /\ fileDiff.switched.i
          = addedRunEnd(fileDiff.entered.oldHunkBody, fileDiff.entered.i)
       /\ fileDiff.switched.j
          = addedRunEnd(fileDiff.entered.newHunkBody, fileDiff.entered.j)
       /\ fileDiff.switched.currentOrgI = fileDiff.entered.currentOrgI
       /\ OldSide(Emitted(fileDiff))
          = AddedRun(fileDiff.entered.oldHunkBody, fileDiff.entered.i)
       /\ NewSide(Emitted(fileDiff))
          = AddedRun(fileDiff.entered.newHunkBody, fileDiff.entered.j)

\* C21 failing input: both patches add the line x before line 1 of the base
\* text; the iteration that consumes the two runs emits nothing
C21_FailingInput ==
    /\ pc = "merging"
    /\ fileDiff.entered # None
    /\ EitherAtAdded(fileDiff.entered)
    /\ oldDiff.Hunks = <<MkHunk(1, 1, << <<"+", "x">>, <<" ">> \o BaseLine(1) >>)>>
    /\ newDiff.Hunks = <<MkHunk(1, 1, << <<"+", "x">>, <<"-">> \o BaseLine(1) >>)>>
    /\ AddedRun(fileDiff.entered.oldHunkBody, fileDiff.entered.i) = << <<"x">> >>
    /\ AddedRun(fileDiff.entered.newHunkBody, fileDiff.entered.j) = << <<"x">> >>
    /\ Emitted(fileDiff) = << >>

\* the orig-line intervals [start, start + lines) of two hunks have a line in
\* common
Intersect(a, b) ==
    \E n \in a.OrigStartLine..(OrigEnd(a) - 1) :
        n \in b.OrigStartLine..(OrigEnd(b) - 1)

\* the last step of the driver was an iteration of its loop over both lists
Iterated(st) == st.taken \in {"old before new", "new before old", "overlapping"}

\* C22 (overlap test of the driver): the current old and new hunk go to the
\* overlap detector and the merger exactly when their orig-line intervals
\* intersect; otherwise (also when one ends exactly where the other starts)
\* the earlier hunk is emitted as disjoint, reverted if old, unchanged if new.
C22_OverlapTest ==
    (pc \in {"first loop", "returned"} /\ Iterated(fileDiff))
    => /\ fileDiff.taken = "overlapping"
          <=> Intersect(oldDiff.Hunks[fileDiff.fromI + 1],
                        newDiff.Hunks[fileDiff.fromJ + 1])
       /\ fileDiff.taken = "old before new"
          => /\ oldDiff.Hunks[fileDiff.fromI + 1].OrigStartLine
                < newDiff.Hunks[fileDiff.fromJ + 1].OrigStartLine
             /\ fileDiff.hunks[Len(fileDiff.hunks)]
                = revertedHunk(oldDiff.Hunks[fileDiff.fromI + 1])
       /\ fileDiff.taken = "new before old"
          => /\ newDiff.Hunks[fileDiff.fromJ + 1].OrigStartLine
                < oldDiff.Hunks[fileDiff.fromI + 1].OrigStartLine
             /\ fileDiff.hunks[Len(fileDiff.hunks)]
                = newDiff.Hunks[fileDiff.fromJ + 1]

\* C22 failing input: the old hunk deletes line 1 and the new hunk deletes
\* line 2; the old hunk ends exactly where the new one starts, and the two go
\* to the merger
C22_FailingInput ==
    /\ pc = "first loop"
    /\ oldDiff.Hunks = <<MkHunk(1, 1, << <<"-">> \o BaseLine(1) >>)>>
    /\ newDiff.Hunks = <<MkHunk(2, 2, << <<"-">> \o BaseLine(2) >>)>>
    /\ fileDiff.taken = "overlapping"
    /\ fileDiff.hunks = <<[OrigStartLine |-> 1, OrigLines |-> 1,
                           NewStartLine |-> 1, NewLines |-> 1,
                           Body |-> << <<"+">> \o BaseLine(1),
                                       <<"-">> \o BaseLine(2) >>]>>

\* the iteration of the merge loop that has just run began with hunks left to
\* process
HunksRemained(f) ==
    \/ f.entered.currentOldHunkI < Len(oldDiff.Hunks)
    \/ f.entered.currentNewHunkJ < Len(newDiff.Hunks)

\* C23 (neither side open): in the merge of a chain that findOverlappingHunkSet
\* collected from two well-formed FileDiffs, no iteration of the loop, which
\* runs while hunks remain to be processed, passes its two "Entering next hunk"
\* blocks with no hunk open on either side.
C23_NeverNeitherOpen ==
    (pc = "merging" /\ fileDiff.entered # None)
    => /\ HunksRemained(fileDiff)
       /\ ~(fileDiff.entered.i = -1 /\ fileDiff.entered.j = -1)
       /\ fileDiff.st.err # "hang"

\* C23 witness: the first of two old hunks of the chain is done, the second
\* one starts later, and the iteration runs with the new hunk alone open
C23_Witness ==
    /\ pc = "merging"
    /\ fileDiff.entered # None
    /\ Len(oldDiff.Hunks) = 2
    /\ fileDiff.entered.currentOldHunkI = 1
    /\ fileDiff.entered.i = -1
    /\ fileDiff.entered.j >= 0
    /\ fileDiff.entered.currentOrgI < oldDiff.Hunks[2].OrigStartLine

\* C24 (no hunk for a body without changes): mergeOverlappingHunks returns no
\* hunk exactly when the assembled body has no "+" and no "-" line, and
\* interFileDiff then appends nothing for the chain; otherwise the body of the
\* returned hunk is the assembled lines, each ended by a newline, and the
\* placeholder NUL byte is gone.
C24_NoHunkWithoutChanges ==
    (pc \in {"merged", "appended"} /\ fileDiff.st.err = "nil")
    => /\ patched.inter.err = "nil"
       /\ patched.inter.hunk = NilHunk
          <=> \A k \in 1..Len(fileDiff.st.newBody) : ~IsChange(fileDiff.st.newBody[k])
       /\ patched.inter.hunk # NilHunk
          => /\ patched.inter.hunk.Body = fileDiff.st.newBody
             /\ \A k \in 1..Len(patched.inter.hunk.Body) :
                   patched.inter.hunk.Body[k] # PlaceholderBody[1]
       /\ pc = "appended"
          => /\ patched.back.err = "nil"
             /\ patched.back.hunks = IF patched.inter.hunk = NilHunk THEN << >>
                                     ELSE <<patched.inter.hunk>>

\* C24 witness: both patches delete line 1 and keep line 2; the assembled body
\* is the one context line of line 2, no hunk is returned and none is appended
C24_Witness ==
    /\ pc = "appended"
    /\ fileDiff.st.err = "nil"
    /\ fileDiff.st.newBody = << <<" ">> \o BaseLine(2) >>
    /\ patched.inter.hunk = NilHunk
    /\ patched.back.hunks = << >>

\* a hunk body without its leading and its trailing context lines
RECURSIVE DropContext(_)
DropContext(body) ==
    IF body # << >> /\ HasPrefix(body[1], " ") THEN DropContext(Tail(body))
    ELSE body

RECURSIVE DropTrailingContext(_)
DropTrailingContext(body) ==
    IF body # << >> /\ HasPrefix(body[Len(body)], " ")
    THEN DropTrailingContext(SubSeq(body, 1, Len(body) - 1))
    ELSE body

Core(body) == DropTrailingContext(DropContext(body))

\* the changes of the chunks from chunk k, grouped as the claim groups them:
\* the equal lines after a change stay with it when they are at most
\* 2*contextLines+1 and another change follows, and 2*contextLines+2 or more
\* equal lines end the group; cur is the group under way, groups the groups
\* that are complete
RECURSIVE ChangeGroups(_, _, _, _)
ChangeGroups(chunks, k, cur, groups) ==
    IF k > Len(chunks)
    THEN IF cur = << >> THEN groups ELSE Append(groups, Core(cur))
    ELSE IF EqualOnly(chunks[k])
    THEN ChangeGroups(chunks, k + 1, cur, groups)
    ELSE IF Len(chunks[k].Equal) >= 2 * contextLines + 2
    THEN ChangeGroups(chunks, k + 1, << >>,
             Append(groups, cur \o Prefixed("+", chunks[k].Added)
                                \o Prefixed("-", chunks[k].Deleted)))
    ELSE ChangeGroups(chunks, k + 1,
             cur \o Prefixed("+", chunks[k].Added)
                 \o Prefixed("-", chunks[k].Deleted)
                 \o Prefixed(" ", chunks[k].Equal),
             groups)

\* the line-diff chunks of the two patched texts of mixed mode
PatchedChunks ==
    DiffChunks(TrimSuffixNL(patched.old.out), TrimSuffixNL(patched.new.out))

\* C25 (split threshold, N = 2): two consecutive changes with at most 2N+1 = 5
\* equal lines between them are in the same hunk, with all those equal lines
\* as context between them, and two changes with 2N+2 = 6 or more equal lines
\* between them are in different hunks.
C25_SplitThreshold ==
    (pc = "mixed" /\ fileDiff.err = "nil")
    => [h \in 1..Len(fileDiff.fd.Hunks) |-> Core(fileDiff.fd.Hunks[h].Body)]
       = ChangeGroups(PatchedChunks, 1, << >>, << >>)

\* C25 witness: the patched texts differ in line 1 and in line 7, with five
\* equal lines between, and the result is one hunk that holds both changes
C25_Witness ==
    /\ pc = "mixed"
    /\ fileDiff.err = "nil"
    /\ Len(fileDiff.fd.Hunks) = 1
    /\ Core(fileDiff.fd.Hunks[1].Body)
       = << <<"-">> \o BaseLine(1) >>
         \o [k \in 1..5 |-> <<" ">> \o BaseLine(k + 1)]
         \o << <<"-">> \o BaseLine(7) >>

\* C26 (empty patch): applyDiff with no FileDiff (nil) or with a FileDiff
\* that has no hunks returns the source string unchanged and no error.
C26_EmptyPatchIdentity ==
    pc = "patched" => patched.old = [out |-> source, err |-> "nil"]

\* C26 witness: a FileDiff without hunks was applied to a text of two lines
\* that ends in a newline, and the text came back
C26_Witness ==
    /\ pc = "patched"
    /\ oldDiff = MkFileDiff(<< >>)
    /\ source = <<BaseLine(1), <<"x">>, << >> >>
    /\ patched.old.out = source

\* the last iteration of the driver merged a chain into a hunk
MergedHunk(st) ==
    st.taken = "overlapping" /\ st.err = "nil" /\ st.merged # NilHunk

\* the lines text has from line start on, n of them
LinesAt(text, start, n) ==
    IF start >= 1 /\ start + n - 1 <= Len(text)
    THEN SubSeq(text, start, start + n - 1)
    ELSE None

\* C27 (line counts of the merged hunk): for a chain of overlapping hunks of
\* two well-formed patches of the same base, OrigLines of the merged hunk is
\* the number of its " " and "-" body lines and NewLines the number of its " "
\* and "+" body lines, OrigStartLine is a line number of the base patched with
\* oldDiff and NewStartLine one of the base patched with newDiff: the old side
\* of the body is found there in the one text and the new side in the other.
C27_MergedLineCounts ==
    (/\ pc \in {"first loop", "returned"}
     /\ MergedHunk(fileDiff)
     /\ ContextMatches(source, oldDiff)
     /\ ContextMatches(source, newDiff))
    => /\ fileDiff.merged.OrigLines = OrigCount(fileDiff.merged.Body)
       /\ fileDiff.merged.NewLines = NewCount(fileDiff.merged.Body)
       /\ LinesAt(TrimSuffixNL(applyDiff(source, oldDiff).out),
                  fileDiff.merged.OrigStartLine, OrigCount(fileDiff.merged.Body))
          = OldSide(fileDiff.merged.Body)
       /\ LinesAt(TrimSuffixNL(applyDiff(source, newDiff).out),
                  fileDiff.merged.NewStartLine, NewCount(fileDiff.merged.Body))
          = NewSide(fileDiff.merged.Body)

\* C27 failing input: both patches add the line x before line 1, the old one
\* keeps line 1 and the new one deletes it; the merged hunk counts the line x
\* that its body does not have
C27_FailingInput ==
    /\ pc = "first loop"
    /\ oldDiff.Hunks = <<MkHunk(1, 1, << <<"+", "x">>, <<" ">> \o BaseLine(1) >>)>>
    /\ newDiff.Hunks = <<MkHunk(1, 1, << <<"+", "x">>, <<"-">> \o BaseLine(1) >>)>>
    /\ MergedHunk(fileDiff)
    /\ fileDiff.merged = [OrigStartLine |-> 1, OrigLines |-> 2,
                          NewStartLine |-> 1, NewLines |-> 1,
                          Body |-> << <<"-">> \o BaseLine(1) >>]

\* what the last step of the driver consumed: one old hunk, emitted reverted,
\* one new hunk, emitted as it is, or the hunks of one chain, old and new,
\* from the indexes the step began with up to the indexes it ended with
ConsumedOnce(st) ==
    /\ st.err \notin {"hang", "panic"}
    /\ st.fromI <= st.i /\ st.i <= Len(oldDiff.Hunks)
    /\ st.fromJ <= st.j /\ st.j <= Len(newDiff.Hunks)
    /\ st.i > st.fromI \/ st.j > st.fromJ
    /\ st.taken \in {"old before new", "rest of old"}
       => /\ st.i = st.fromI + 1 /\ st.j = st.fromJ
          /\ st.hunks[Len(st.hunks)] = revertedHunk(oldDiff.Hunks[st.i])
    /\ st.taken \in {"new before old", "rest of new"}
       => /\ st.i = st.fromI /\ st.j = st.fromJ + 1
          /\ st.hunks[Len(st.hunks)] = newDiff.Hunks[st.j]
    /\ st.taken = "overlapping"
       => /\ st.i > st.fromI /\ st.j > st.fromJ
          /\ st.set.oldHunks = SubSeq(oldDiff.Hunks, st.fromI + 1, st.i)
          /\ st.set.newHunks = SubSeq(newDiff.Hunks, st.fromJ + 1, st.j)

\* every step goes on where the step before it ended
StepsInOrder ==
    (pc = "first loop" /\ fileDiff' # fileDiff)
    => /\ fileDiff'.fromI = fileDiff.i /\ fileDiff'.fromJ = fileDiff.j
       /\ fileDiff'.i >= fileDiff.i /\ fileDiff'.j >= fileDiff.j
       /\ fileDiff'.i > fileDiff.i \/ fileDiff'.j > fileDiff.j

RECURSIVE WalkedLines(_, _, _)
WalkedLines(hunks, k, i) ==
    IF k = 0 THEN (IF i >= 0 THEN i ELSE 0)
    ELSE Len(SplitTrimmed(hunks[k].Body)) + WalkedLines(hunks, k - 1, i)

\* the body lines of both sides that the walk has behind it
Walked(st) ==
    WalkedLines(oldDiff.Hunks, st.currentOldHunkI, st.i)
    + WalkedLines(newDiff.Hunks, st.currentNewHunkJ, st.j)

\* an iteration that ends without an error has advanced i, j or currentOrgI
\* in its switch, has more body lines behind it than the iteration before,
\* and has moved neither currentOrgI nor a hunk index back
WalkAdvances ==
    (pc = "merging" /\ fileDiff' # fileDiff /\ fileDiff'.switched.err = "nil")
    => /\ \/ fileDiff'.switched.i > fileDiff'.entered.i
          \/ fileDiff'.switched.j > fileDiff'.entered.j
          \/ fileDiff'.switched.currentOrgI > fileDiff'.entered.currentOrgI
       /\ fileDiff'.st.err = "nil"
       /\ Walked(fileDiff'.st) > Walked(fileDiff.st)
       /\ fileDiff'.st.currentOrgI >= fileDiff.st.currentOrgI
       /\ fileDiff'.st.currentOldHunkI >= fileDiff.st.currentOldHunkI
       /\ fileDiff'.st.currentNewHunkJ >= fileDiff.st.currentNewHunkJ

\* a hunk is entered in the iteration that finds currentOrgI at its
\* OrigStartLine, with its first line as the current line
EnteredAtStart ==
    (pc = "merging" /\ fileDiff' # fileDiff)
    => /\ (fileDiff.st.i = -1 /\ fileDiff'.entered.i # -1)
          => /\ fileDiff'.entered.i = 0
             /\ fileDiff.st.currentOrgI =
                  oldDiff.Hunks[fileDiff.st.currentOldHunkI + 1].OrigStartLine
             /\ fileDiff'.entered.oldHunkBody =
                  SplitTrimmed(oldDiff.Hunks[fileDiff.st.currentOldHunkI + 1].Body)
       /\ (fileDiff.st.j = -1 /\ fileDiff'.entered.j # -1)
          => /\ fileDiff'.entered.j = 0
             /\ fileDiff.st.currentOrgI =
                  newDiff.Hunks[fileDiff.st.currentNewHunkJ + 1].OrigStartLine
             /\ fileDiff'.entered.newHunkBody =
                  SplitTrimmed(newDiff.Hunks[fileDiff.st.currentNewHunkJ + 1].Body)

\* currentOrgI has not passed the OrigStartLine of a hunk that is still to be
\* entered, and the body walked so far is within the bodies of the chain
NoHunkPassed ==
    (pc = "merging" /\ fileDiff.st.err = "nil")
    => /\ (fileDiff.st.i = -1 /\ fileDiff.st.currentOldHunkI < Len(oldDiff.Hunks))
          => fileDiff.st.currentOrgI
             <= oldDiff.Hunks[fileDiff.st.currentOldHunkI + 1].OrigStartLine
       /\ (fileDiff.st.j = -1 /\ fileDiff.st.currentNewHunkJ < Len(newDiff.Hunks))
          => fileDiff.st.currentOrgI
             <= newDiff.Hunks[fileDiff.st.currentNewHunkJ + 1].OrigStartLine
       /\ fileDiff.st.currentOldHunkI <= Len(oldDiff.Hunks)
       /\ fileDiff.st.currentNewHunkJ <= Len(newDiff.Hunks)
       /\ Walked(fileDiff.st)
          <= WalkedLines(oldDiff.Hunks, Len(oldDiff.Hunks), -1)
             + WalkedLines(newDiff.Hunks, Len(newDiff.Hunks), -1)

=============================================================================
